---- MODULE Spec2Model ----
(***************************************************************************)
(* Plottable: Plots.Bar (components/plots/barPlot.ts) mark geometry,       *)
(* draw-step scheduling and spatial queries.                               *)
(*                                                                         *)
(* Pixel quantities are fixed-point integers: one pixel is PX units, so    *)
(* that the half-pixel tolerance, the halving of the bar width and the     *)
(* ratios 0.95 and 0.4 are exact on scales that map to whole pixels.       *)
(* A JavaScript NaN is the token NaN; the arithmetic helpers propagate it  *)
(* and every comparison with it is false, as in JavaScript.                *)
(***************************************************************************)
EXTENDS Integers, Sequences, FiniteSets, TLC

VARIABLES
  isVertical,       \* Bar._isVertical
  baselineValue,    \* Bar._baselineValue
  xBound, yBound,   \* whether x() / y() have been bound (XYPlot property bindings)
  xScale, yScale,   \* the scales bound by x(..., xScale) / y(..., yScale)
  width, height,    \* Component.width() / Component.height(), in units
  animate,          \* Plot._animate
  dataChanged,      \* Plot._dataChanged
  renderRequested,  \* a render() call is registered and not yet flushed
  datasets,         \* Plot.datasets(): sequence of datasets, each a sequence of data
  drawSteps,        \* the draw steps handed to the drawers by the last paint
  rendered,         \* the rects in the DOM after the last paint, in draw order
  query,            \* the last spatial query made
  result,           \* and what it returned
  thrown,           \* the error raised by the last call, NoError if it returned
  warnings,         \* the datasets named by the warnings of the last stack validation
  stackOffsets,     \* the stack offset of each datum (_PLOTTABLE_PROTECTED_FIELD_STACK_OFFSET)
  detectionRadius,  \* DragBoxLayer._detectionRadius
  resizable,        \* DragBoxLayer._resizable
  boxVisible,       \* SelectionBoxLayer.boxVisible()
  boxBounds,        \* SelectionBoxLayer.bounds()
  resizingEdges,    \* the variables of the closure of DragBoxLayer._setUpCallbacks
  topLeft,
  bottomRight,
  startedNewBox,
  dragging,         \* the drag gesture in progress: its start and last point
  components        \* Group._components

plotVars == <<isVertical, baselineValue, xBound, yBound, xScale, yScale, width, height,
              animate, dataChanged, renderRequested, datasets, drawSteps, rendered>>
queryVars == <<query, result>>
stackVars == <<warnings, stackOffsets>>
layerVars == <<detectionRadius, resizable, boxVisible, boxBounds, resizingEdges, topLeft,
               bottomRight, startedNewBox, dragging>>
groupVars == <<components>>
vars == <<plotVars, queryVars, thrown, stackVars, layerVars, groupVars>>

---------------------------------------------------------------------------
(* Bounds and input sets *)

MaxData == 2                    \* data appended over all datasets

PX == 200                       \* units per pixel
NaN == -999999                  \* the not-a-number token

DatasetIds == {1, 2}
Keys == {1, 2, 3}               \* domain values on the bar (thickness) axis
Values == {-1, 2, NaN}          \* values on the length axis; NaN: not a valid number
BaselineValues == {0, 2}

---------------------------------------------------------------------------
(* JavaScript number arithmetic *)

IsNaN(a) == a = NaN
Sub(a, b) == IF IsNaN(a) \/ IsNaN(b) THEN NaN ELSE a - b
Abs(a) == IF IsNaN(a) THEN NaN ELSE IF a < 0 THEN 0 - a ELSE a
Half(a) == IF IsNaN(a) THEN NaN ELSE a \div 2
Gt(a, b) == ~IsNaN(a) /\ ~IsNaN(b) /\ a > b
Floor(a) == a \div PX
MinOf(a, b) == IF a < b THEN a ELSE b
MaxOf(a, b) == IF a > b THEN a ELSE b

\* Utils.Methods.isValidNumber
isValidNumber(a) == ~IsNaN(a)

SetMin(S) == CHOOSE m \in S : \A n \in S : m <= n
SetMax(S) == CHOOSE m \in S : \A n \in S : m >= n

\* Utils.Methods.min / max over an array, with the default for the empty array
min(S, default) == IF S = {} THEN default ELSE SetMin(S)
max(S, default) == IF S = {} THEN default ELSE SetMax(S)

\* the elements of a set of numbers, ascending (Array.sort((a, b) => a - b))
RECURSIVE sort(_)
sort(S) == IF S = {} THEN <<>> ELSE <<SetMin(S)>> \o sort(S \ {SetMin(S)})

---------------------------------------------------------------------------
(* Scales: scale(value) -> pixel.  A scale is linear, offset + step * value; *)
(* a Category scale in bands mode also has a rangeBand().                    *)

LinearScale(offsetPx, stepPx) ==
  [category |-> FALSE, offset |-> offsetPx * PX, step |-> stepPx * PX, band |-> 0]
CategoryScale(offsetPx, stepPx, bandPx) ==
  [category |-> TRUE, offset |-> offsetPx * PX, step |-> stepPx * PX, band |-> bandPx * PX]

scale(s, v) == IF IsNaN(v) THEN NaN ELSE s.offset + s.step * v
rangeBand(s) == s.band

\* XYPlot._projectorsReady
projectorsReady == xBound /\ yBound

\* the (dataset, index) pairs of the data of the plot
DataCount == Len(datasets[1]) + Len(datasets[2])
DataIndex == { p \in DatasetIds \X (1..DataCount) : p[2] <= Len(datasets[p[1]]) }

---------------------------------------------------------------------------
(* Bar._getBarPixelWidth *)

BAR_WIDTH_RATIO_PCT == 95
SINGLE_BAR_DIMENSION_RATIO_PCT == 40

\* as barAccessorData, with the accessor of the other axis
barAccessorData_otherAxis ==
  { IF isVertical THEN datasets[p[1]][p[2]].y ELSE datasets[p[1]][p[2]].x : p \in DataIndex }

\* the bar accessor applied to every datum of every dataset
barAccessorData ==
  { IF isVertical THEN datasets[p[1]][p[2]].x ELSE datasets[p[1]][p[2]].y : p \in DataIndex }

\* as barWidthDimension, with the extent on the other axis
barWidthDimension_otherAxis == IF isVertical THEN height ELSE width

barWidthDimension == IF isVertical THEN width ELSE height

\* as getBarPixelWidth, without the clamps at the two ends of the scaled data
getBarPixelWidth_unclamped ==
  IF ~projectorsReady THEN 0
  ELSE
    LET barScale == IF isVertical THEN xScale ELSE yScale
        widthOver(numberBarAccessorData) ==
          min({ Abs(scale(barScale, numberBarAccessorData[i + 1])
                    - scale(barScale, numberBarAccessorData[i])) :
                  i \in 1..(Len(numberBarAccessorData) - 1) },
              (barWidthDimension * SINGLE_BAR_DIMENSION_RATIO_PCT) \div 100)
    IN IF barScale.category THEN rangeBand(barScale)
       ELSE (widthOver(sort(barAccessorData)) * BAR_WIDTH_RATIO_PCT) \div 100

getBarPixelWidth ==
  IF ~projectorsReady THEN 0
  ELSE
    LET barScale == IF isVertical THEN xScale ELSE yScale
        \* "if (minScaledDatum > 0) barPixelWidth = Math.min(...)"
        clampAtMin(barPixelWidth, minScaledDatum) ==
          IF minScaledDatum > 0 THEN MinOf(barPixelWidth, minScaledDatum * 2)
          ELSE barPixelWidth
        \* "if (maxScaledDatum < barWidthDimension) barPixelWidth = Math.min(...)"
        clampAtMax(barPixelWidth, maxScaledDatum) ==
          IF maxScaledDatum < barWidthDimension
          THEN MinOf(barPixelWidth, (barWidthDimension - maxScaledDatum) * 2)
          ELSE barPixelWidth
        widthOver(numberBarAccessorData, scaledData) ==
          LET pairGaps ==
                { Abs(scale(barScale, numberBarAccessorData[i + 1])
                      - scale(barScale, numberBarAccessorData[i])) :
                    i \in 1..(Len(numberBarAccessorData) - 1) }
              barPixelWidth ==
                min(pairGaps, (barWidthDimension * SINGLE_BAR_DIMENSION_RATIO_PCT) \div 100)
          IN clampAtMax(clampAtMin(barPixelWidth, min(scaledData, 0)), max(scaledData, 0))
    IN IF barScale.category THEN rangeBand(barScale)
       ELSE (widthOver(sort(barAccessorData), { scale(barScale, v) : v \in barAccessorData })
             * BAR_WIDTH_RATIO_PCT) \div 100

---------------------------------------------------------------------------
(* Bar._generateAttrToProjector *)

primaryScale == IF isVertical THEN yScale ELSE xScale
scaledBaseline == scale(primaryScale, baselineValue)

\* Plot._scaledAccessor(this.x()) and Plot._scaledAccessor(this.y())
scaledX(d) == scale(xScale, d.x)
scaledY(d) == scale(yScale, d.y)

positionF(d) == IF isVertical THEN scaledX(d) ELSE scaledY(d)
originalPositionFn(d) == IF isVertical THEN scaledY(d) ELSE scaledX(d)
widthF(d) == getBarPixelWidth
\* as heightF, without Math.abs
heightF_signed(d) == Sub(scaledBaseline, originalPositionFn(d))
heightF(d) == Abs(Sub(scaledBaseline, originalPositionFn(d)))

secondaryAttrF(d) == Sub(positionF(d), Half(widthF(d)))

\* as primaryAttrF, with the comparison turned around
primaryAttrF_turned(d) ==
  LET originalPos == originalPositionFn(d)
  IN IF Gt(scaledBaseline, originalPos) THEN scaledBaseline ELSE originalPos

\* as primaryAttrF, starting every bar at its original position
primaryAttrF_original(d) == originalPositionFn(d)

primaryAttrF(d) ==
  LET originalPos == originalPositionFn(d)
  IN IF Gt(originalPos, scaledBaseline) THEN scaledBaseline ELSE originalPos

generateAttrToProjector(d) ==
  [ x      |-> IF isVertical THEN secondaryAttrF(d) ELSE primaryAttrF(d),
    y      |-> IF isVertical THEN primaryAttrF(d) ELSE secondaryAttrF(d),
    width  |-> IF isVertical THEN widthF(d) ELSE heightF(d),
    height |-> IF isVertical THEN heightF(d) ELSE widthF(d) ]

---------------------------------------------------------------------------
(* BarRenderer._paint: the "y" and "height" projectors, from the projected y *)
(* of a datum and the scaled baseline.                                       *)

barRendererY(originalY, scaledBaselineY) ==
  IF Gt(originalY, scaledBaselineY) THEN scaledBaselineY ELSE originalY

barRendererHeight(originalY, scaledBaselineY) == Abs(Sub(scaledBaselineY, originalY))

---------------------------------------------------------------------------
(* Bar._generateDrawSteps.  A projector is tabulated over the data: *)
(* attrToProjector[ds][i] are the attributes of datum i of dataset ds. *)

Tabulate(f(_)) ==
  [ds \in DOMAIN datasets |-> [i \in DOMAIN datasets[ds] |-> f(datasets[ds][i])]]

\* as resetAttrToProjector, resetting "y" and "height" whatever the orientation
resetAttrToProjector_vertical(d) ==
  [generateAttrToProjector(d) EXCEPT !.y = scaledBaseline, !.height = 0]

resetAttrToProjector(d) ==
  LET a == generateAttrToProjector(d)
  IN IF isVertical THEN [a EXCEPT !.y = scaledBaseline, !.height = 0]
                   ELSE [a EXCEPT !.x = scaledBaseline, !.width = 0]

drawStepsFor(dataChangedNow, animateNow) ==
  (IF dataChangedNow /\ animateNow
   THEN << [animator |-> "reset", attrToProjector |-> Tabulate(resetAttrToProjector)] >>
   ELSE <<>>)
  \o << [animator |-> "main", attrToProjector |-> Tabulate(generateAttrToProjector)] >>

\* as generateDrawSteps, resetting whenever the plot animates
generateDrawSteps_animate == drawStepsFor(TRUE, animate)

generateDrawSteps == drawStepsFor(dataChanged, animate)

---------------------------------------------------------------------------
(* Bar._getDataToDraw: per dataset, the indices of the data that are drawn *)

\* as validAttrs, testing "x" alone
validAttrs_xOnly(a) == isValidNumber(a.x)

validAttrs(a) ==
  isValidNumber(a.x) /\ isValidNumber(a.y) /\ isValidNumber(a.width) /\ isValidNumber(a.height)

RECURSIVE filterIndices(_, _)
filterIndices(data, i) ==
  IF i > Len(data) THEN <<>>
  ELSE (IF validAttrs(generateAttrToProjector(data[i])) THEN <<i>> ELSE <<>>)
       \o filterIndices(data, i + 1)

getDataToDraw == [ds \in DOMAIN datasets |-> filterIndices(datasets[ds], 1)]

---------------------------------------------------------------------------
(* Painting: the drawer of each dataset applies the draw steps in order to *)
(* the data to draw; the rects end with the attributes of the last step.   *)

rectsOf(ds, steps, toDraw) ==
  [j \in DOMAIN toDraw[ds] |->
     [ dataset |-> ds, index |-> toDraw[ds][j], datum |-> datasets[ds][toDraw[ds][j]],
       attr |-> steps[Len(steps)].attrToProjector[ds][toDraw[ds][j]] ]]

RECURSIVE paintFrom(_, _, _)
paintFrom(ds, steps, toDraw) ==
  IF ds > Len(datasets) THEN <<>>
  ELSE rectsOf(ds, steps, toDraw) \o paintFrom(ds + 1, steps, toDraw)

paint(steps) == paintFrom(1, steps, getDataToDraw)

---------------------------------------------------------------------------
(* Operations of the plot *)

NoQuery == [kind |-> "none"]
NoResult == <<>>
NoError == ""
NoOffsets == [ds \in DatasetIds |-> <<>>]

Undefined == [undefined |-> TRUE]
Null == [null |-> TRUE]
NoDrag == [active |-> FALSE]

\* the field initialisers of DragBoxLayer and the box of a new
\* SelectionBoxLayer; the variables of the closure are not yet assigned
InitLayer ==
  /\ detectionRadius = 3
  /\ resizable = FALSE
  /\ boxVisible = FALSE
  /\ boxBounds = [topLeft |-> [x |-> 0, y |-> 0], bottomRight |-> [x |-> 0, y |-> 0]]
  /\ resizingEdges = Undefined
  /\ topLeft = Undefined
  /\ bottomRight = Undefined
  /\ startedNewBox = Undefined
  /\ dragging = NoDrag

\* the field initialiser of Group
InitGroup == components = <<>>

StandardKeyScale == LinearScale(0, 10)
StandardValueScale == IF isVertical THEN LinearScale(12, -4) ELSE LinearScale(12, 4)
PlotWidthPx == 24
PlotHeightPx == 22

\* new Plots.Bar(orientation)
Init ==
  /\ isVertical \in BOOLEAN
  /\ baselineValue = 0
  /\ xBound = FALSE /\ yBound = FALSE
  /\ xScale = IF isVertical THEN StandardKeyScale ELSE StandardValueScale
  /\ yScale = IF isVertical THEN StandardValueScale ELSE StandardKeyScale
  /\ width = PlotWidthPx * PX /\ height = PlotHeightPx * PX
  /\ animate = FALSE
  /\ dataChanged = FALSE
  /\ renderRequested = FALSE
  /\ datasets = [ds \in DatasetIds |-> <<>>]
  /\ drawSteps = <<>>
  /\ rendered = <<>>
  /\ query = NoQuery
  /\ result = NoResult
  /\ thrown = NoError
  /\ warnings = {}
  /\ stackOffsets = NoOffsets
  /\ InitLayer /\ InitGroup

\* Bar.x(x, xScale)
X ==
  /\ ~xBound
  /\ xBound' = TRUE
  /\ renderRequested' = TRUE
  /\ UNCHANGED <<isVertical, baselineValue, yBound, xScale, yScale, width, height, animate,
                 dataChanged, datasets, drawSteps, rendered, queryVars, thrown, stackVars, layerVars, groupVars>>

\* Bar.y(y, yScale)
Y ==
  /\ ~yBound
  /\ yBound' = TRUE
  /\ renderRequested' = TRUE
  /\ UNCHANGED <<isVertical, baselineValue, xBound, xScale, yScale, width, height, animate,
                 dataChanged, datasets, drawSteps, rendered, queryVars, thrown, stackVars, layerVars, groupVars>>

\* as setBaselineValue, without the call of render()
setBaselineValue_noRender(value) ==
  /\ baselineValue' = value
  /\ UNCHANGED <<isVertical, xBound, yBound, xScale, yScale, width, height, animate,
                 dataChanged, renderRequested, datasets, drawSteps, rendered>>

\* the body of baselineValue(value) for a value that is not null: the field
\* is assigned and render() is called
setBaselineValue(value) ==
  /\ baselineValue' = value
  /\ renderRequested' = TRUE
  /\ UNCHANGED <<isVertical, xBound, yBound, xScale, yScale, width, height, animate,
                 dataChanged, datasets, drawSteps, rendered>>


\* Bar.baselineValue(value)
BaselineValue(value) ==
  /\ setBaselineValue(value)
  /\ UNCHANGED <<queryVars, thrown, stackVars, layerVars, groupVars>>

\* Plot.animated(willAnimate)
Animated(willAnimate) ==
  /\ animate' = willAnimate
  /\ UNCHANGED <<isVertical, baselineValue, xBound, yBound, xScale, yScale, width, height,
                 dataChanged, renderRequested, datasets, drawSteps, rendered, queryVars, thrown, stackVars, layerVars, groupVars>>

Datum(k, v) == IF isVertical THEN [x |-> k, y |-> v] ELSE [x |-> v, y |-> k]

\* a dataset gets one more datum: Plot._onDatasetUpdate
DatasetUpdate(ds, d) ==
  /\ DataCount < MaxData
  /\ datasets' = [datasets EXCEPT ![ds] = Append(@, d)]
  /\ dataChanged' = TRUE
  /\ renderRequested' = TRUE
  /\ UNCHANGED <<isVertical, baselineValue, xBound, yBound, xScale, yScale, width, height,
                 animate, drawSteps, rendered, queryVars, thrown, stackVars, layerVars, groupVars>>

\* the render controller flushes the registered render: Plot.renderImmediately
Paint ==
  /\ renderRequested
  /\ projectorsReady
  /\ drawSteps' = generateDrawSteps
  /\ rendered' = paint(generateDrawSteps)
  /\ dataChanged' = FALSE
  /\ renderRequested' = FALSE
  /\ UNCHANGED <<isVertical, baselineValue, xBound, yBound, xScale, yScale, width, height,
                 animate, datasets, queryVars, thrown, stackVars, layerVars, groupVars>>

\* the keys of the data that the datasets get
UpdateKeys == Keys \ {3}

Next ==
  \/ X
  \/ Y
  \/ \E value \in BaselineValues : BaselineValue(value)
  \/ \E willAnimate \in BOOLEAN : Animated(willAnimate)
  \/ \E ds \in DatasetIds, k \in UpdateKeys, v \in Values : DatasetUpdate(ds, Datum(k, v))
  \/ Paint

Spec == Init /\ [][Next]_vars

---------------------------------------------------------------------------
(* The constructor.  Before it runs the fields of the object are           *)
(* undefined; when it throws, the object is not handed to the caller and   *)
(* nothing more happens to it.  The scales are those that x() and y() will *)
(* bind, chosen with the orientation.                                      *)

ORIENTATION_VERTICAL == "vertical"
ORIENTATION_HORIZONTAL == "horizontal"
Orientations == { ORIENTATION_VERTICAL, ORIENTATION_HORIZONTAL, "diagonal", "" }

\* as Constructor, taking every orientation but "vertical" for horizontal
Constructor_lenient(orientation) ==
  /\ query = NoQuery
  /\ query' = [kind |-> "new", orientation |-> orientation]
  /\ isVertical' = (orientation = ORIENTATION_VERTICAL)
  /\ baselineValue' = 0
  /\ xScale' = IF orientation = ORIENTATION_VERTICAL THEN LinearScale(0, 10)
               ELSE LinearScale(12, 4)
  /\ yScale' = IF orientation = ORIENTATION_VERTICAL THEN LinearScale(12, -4)
               ELSE LinearScale(0, 10)
  /\ UNCHANGED <<xBound, yBound, width, height, animate, dataChanged, renderRequested,
                 datasets, drawSteps, rendered, result, thrown, stackVars, layerVars, groupVars>>

\* new Plots.Bar(orientation)
Constructor(orientation) ==
  /\ query = NoQuery
  /\ query' = [kind |-> "new", orientation |-> orientation]
  /\ IF orientation # ORIENTATION_VERTICAL /\ orientation # ORIENTATION_HORIZONTAL
     THEN /\ thrown' = orientation \o " is not a valid orientation for Plots.Bar"
          /\ UNCHANGED <<plotVars, result, stackVars, layerVars, groupVars>>
     ELSE /\ isVertical' = (orientation = ORIENTATION_VERTICAL)
          /\ baselineValue' = 0
          /\ xScale' = IF orientation = ORIENTATION_VERTICAL THEN LinearScale(0, 10)
                       ELSE LinearScale(12, 4)
          /\ yScale' = IF orientation = ORIENTATION_VERTICAL THEN LinearScale(12, -4)
                       ELSE LinearScale(0, 10)
          /\ UNCHANGED <<xBound, yBound, width, height, animate, dataChanged,
                         renderRequested, datasets, drawSteps, rendered, result, thrown,
                         stackVars, layerVars, groupVars>>

InitNew ==
  /\ isVertical = Undefined
  /\ baselineValue = Undefined
  /\ xBound = FALSE /\ yBound = FALSE
  /\ xScale = Undefined /\ yScale = Undefined
  /\ width = PlotWidthPx * PX /\ height = PlotHeightPx * PX
  /\ animate = FALSE
  /\ dataChanged = FALSE
  /\ renderRequested = FALSE
  /\ datasets = [ds \in DatasetIds |-> <<>>]
  /\ drawSteps = <<>>
  /\ rendered = <<>>
  /\ query = NoQuery
  /\ result = NoResult
  /\ thrown = NoError
  /\ warnings = {}
  /\ stackOffsets = NoOffsets
  /\ InitLayer /\ InitGroup

\* the plot has been handed to the caller
Constructed == query # NoQuery /\ thrown = NoError

NextNew ==
  \/ \E orientation \in Orientations : Constructor(orientation)
  \/ Constructed /\ Next

SpecNew == InitNew /\ [][NextNew]_vars

---------------------------------------------------------------------------
(* The projection of a configured plot: the plot configured with any of the *)
(* scales, extents, baselines and data below is painted once.               *)

KeyScales ==
  { LinearScale(0, 10), LinearScale(0, 0), LinearScale(40, -10), LinearScale(-17, 10),
    CategoryScale(0, 10, 8) }
ValueScales == { LinearScale(12, -4), LinearScale(12, 4) }
Extents == { <<24, 22>>, <<0, 0>> }

\* the data of the two datasets: at most MaxData data in all, drawn from D
DataChoices(D) ==
  UNION { { <<first, second>> : first \in [1..c[1] -> D], second \in [1..c[2] -> D] } :
            c \in { c \in (0..MaxData) \X (0..MaxData) : c[1] + c[2] <= MaxData } }

InitProj ==
  /\ isVertical \in BOOLEAN
  /\ baselineValue \in BaselineValues
  /\ xBound \in BOOLEAN /\ yBound = xBound
  /\ \E ks \in KeyScales, vs \in ValueScales :
        /\ xScale = IF isVertical THEN ks ELSE vs
        /\ yScale = IF isVertical THEN vs ELSE ks
  /\ \E e \in Extents : width = e[1] * PX /\ height = e[2] * PX
  /\ animate = FALSE
  /\ dataChanged = TRUE
  /\ renderRequested = TRUE
  /\ datasets \in DataChoices({ Datum(k, v) : k \in UpdateKeys, v \in Values })
  /\ drawSteps = <<>>
  /\ rendered = <<>>
  /\ query = NoQuery
  /\ result = NoResult
  /\ thrown = NoError
  /\ warnings = {}
  /\ stackOffsets = NoOffsets
  /\ InitLayer /\ InitGroup

NextProj == Paint

SpecProj == InitProj /\ [][NextProj]_vars

---------------------------------------------------------------------------
(* The plot under a change of its extent: the layout gives the plot a new  *)
(* width and height, and the plot is painted again.                        *)

ResizeExtents == Extents \cup { <<40, 10>> }

\* Component.computeLayout with a new extent, then render()
Resize(extent) ==
  /\ <<width, height>> # <<extent[1] * PX, extent[2] * PX>>
  /\ width' = extent[1] * PX
  /\ height' = extent[2] * PX
  /\ renderRequested' = TRUE
  /\ UNCHANGED <<isVertical, baselineValue, xBound, yBound, xScale, yScale, animate,
                 dataChanged, datasets, drawSteps, rendered, queryVars, thrown, stackVars, layerVars, groupVars>>

InitResize ==
  /\ isVertical \in BOOLEAN
  /\ baselineValue = 0
  /\ xBound \in BOOLEAN /\ yBound = xBound
  /\ \E ks \in KeyScales :
        /\ xScale = IF isVertical THEN ks ELSE StandardValueScale
        /\ yScale = IF isVertical THEN StandardValueScale ELSE ks
  /\ \E e \in ResizeExtents : width = e[1] * PX /\ height = e[2] * PX
  /\ animate = FALSE
  /\ dataChanged = TRUE
  /\ renderRequested = TRUE
  /\ datasets \in DataChoices({ Datum(k, 2) : k \in Keys })
  /\ drawSteps = <<>>
  /\ rendered = <<>>
  /\ query = NoQuery
  /\ result = NoResult
  /\ thrown = NoError
  /\ warnings = {}
  /\ stackOffsets = NoOffsets
  /\ InitLayer /\ InitGroup

NextResize ==
  \/ Paint
  \/ \E extent \in ResizeExtents : Resize(extent)

SpecResize == InitResize /\ [][NextResize]_vars

\* the same plots, painted once at the extent they have
NextWidth == Paint

SpecWidth == InitResize /\ [][NextWidth]_vars

---------------------------------------------------------------------------
(* A plot with data whose baseline is set and read back: the call          *)
(* baselineValue(value) followed by the getter baselineValue().            *)

BaselineValueSetGet(value) ==
  /\ setBaselineValue(value)
  /\ query' = [kind |-> "baselineValue", value |-> value]
  /\ result' = baselineValue'
  /\ UNCHANGED <<thrown, stackVars, layerVars, groupVars>>

InitBaseline ==
  /\ isVertical \in BOOLEAN
  /\ baselineValue = 0
  /\ xBound = TRUE /\ yBound = TRUE
  /\ xScale = (IF isVertical THEN StandardKeyScale ELSE StandardValueScale)
  /\ yScale = (IF isVertical THEN StandardValueScale ELSE StandardKeyScale)
  /\ width = PlotWidthPx * PX /\ height = PlotHeightPx * PX
  /\ animate \in BOOLEAN
  /\ dataChanged = TRUE
  /\ renderRequested = TRUE
  /\ datasets \in DataChoices({ Datum(k, v) : k \in UpdateKeys, v \in Values })
  /\ drawSteps = <<>>
  /\ rendered = <<>>
  /\ query = NoQuery
  /\ result = NoResult
  /\ thrown = NoError
  /\ warnings = {}
  /\ stackOffsets = NoOffsets
  /\ InitLayer /\ InitGroup

NextBaseline ==
  \/ Paint
  \/ \E value \in BaselineValues : BaselineValueSetGet(value)

SpecBaseline == InitBaseline /\ [][NextBaseline]_vars

---------------------------------------------------------------------------
(* Plot.StackedArea.  The plot is vertical: the domain key of a datum is   *)
(* its x and the stacked value its y.  The datasets are stacked in the     *)
(* order of their keys, and each holds at most one datum per domain key.   *)

StackDatasetIds == {1, 2, 3}
\* AbstractStacked._datasetKeysInOrder
datasetKeysInOrder == <<1, 2, 3>>

\* Number.prototype.toString of the domain keys
KeyStrings == <<"1", "2", "3">>
toString(key) == KeyStrings[key]

keyAccessor(datum) == IF isVertical THEN datum.x ELSE datum.y
yAccessor(datum) == datum.y

\* AbstractStacked._getDomainKeys: the keys of the data of all datasets
getDomainKeys ==
  UNION { { toString(keyAccessor(datasets[ds][i])) : i \in DOMAIN datasets[ds] } :
          ds \in DOMAIN datasets }

datasetDomainKeys(ds) ==
  [i \in DOMAIN datasets[ds] |-> toString(keyAccessor(datasets[ds][i]))]

\* datasetDomainKeys.indexOf(domainKey) === -1
indexOfIsMinusOne(strings, string) == \A i \in DOMAIN strings : strings[i] # string

\* as doesNotContainAllDomainKeys, with every() in the place of some()
doesNotContainAllDomainKeys_every(ds) ==
  \A domainKey \in getDomainKeys : indexOfIsMinusOne(datasetDomainKeys(ds), domainKey)

doesNotContainAllDomainKeys(ds) ==
  \E domainKey \in getDomainKeys : indexOfIsMinusOne(datasetDomainKeys(ds), domainKey)

\* the value of a dataset at a domain key, zero when it has no datum there
valueAtKey(ds, domainKey) ==
  LET at == { i \in DOMAIN datasets[ds] :
                toString(keyAccessor(datasets[ds][i])) = domainKey }
  IN IF at = {} THEN 0 ELSE yAccessor(datasets[ds][CHOOSE i \in at : TRUE])

\* the running total at a domain key below the n-th dataset in stacking order
RECURSIVE runningTotal(_, _)
runningTotal(n, domainKey) ==
  IF n = 1 THEN 0
  ELSE runningTotal(n - 1, domainKey) + valueAtKey(datasetKeysInOrder[n - 1], domainKey)

\* AbstractStacked._updateStackOffsets: _PLOTTABLE_PROTECTED_FIELD_STACK_OFFSET
\* of every datum
resolveOffsets ==
  [ds \in DOMAIN datasets |->
     [i \in DOMAIN datasets[ds] |->
        runningTotal(CHOOSE n \in DOMAIN datasetKeysInOrder : datasetKeysInOrder[n] = ds,
                     toString(keyAccessor(datasets[ds][i])))]]

\* StackedArea._updateStackOffsets
UpdateStackOffsets ==
  /\ warnings' = { datasetKeysInOrder[n] : n \in
                     { n \in DOMAIN datasetKeysInOrder :
                         doesNotContainAllDomainKeys(datasetKeysInOrder[n]) } }
  /\ stackOffsets' = resolveOffsets
  /\ thrown' = NoError
  /\ query' = [kind |-> "updateStackOffsets"]
  /\ UNCHANGED <<plotVars, result, layerVars, groupVars>>

\* as stackedAreaAttrToProjector, without the stack offset in "y"
stackedAreaAttrToProjector_unstacked ==
  [ds \in DOMAIN datasets |->
     [i \in DOMAIN datasets[ds] |->
        [y |-> scale(yScale, yAccessor(datasets[ds][i])),
         y0 |-> scale(yScale, stackOffsets[ds][i])]]]

\* StackedArea._generateAttrToProjector: the attributes "y" and "y0"
stackedAreaAttrToProjector ==
  [ds \in DOMAIN datasets |->
     [i \in DOMAIN datasets[ds] |->
        [y |-> scale(yScale, yAccessor(datasets[ds][i]) + stackOffsets[ds][i]),
         y0 |-> scale(yScale, stackOffsets[ds][i])]]]

\* a paint of the stacked plot, after the stack offsets are resolved
StackedAreaPaint ==
  /\ query = [kind |-> "updateStackOffsets"]
  /\ renderRequested
  /\ drawSteps' = <<[attrToProjector |-> stackedAreaAttrToProjector]>>
  /\ renderRequested' = FALSE
  /\ dataChanged' = FALSE
  /\ UNCHANGED <<isVertical, baselineValue, xBound, yBound, xScale, yScale, width, height,
                 animate, datasets, rendered, queryVars, thrown, stackVars, layerVars, groupVars>>

\* the data of a dataset: distinct domain keys in any order; the value at
\* key k is k or k + 3 in the bottom dataset, k + 2 in the next and k + 4 in
\* the top one
KeyOrders ==
  UNION { { keys \in [1..n -> Keys] : \A i, j \in 1..n : keys[i] = keys[j] => i = j } :
          n \in 0..MaxData }
StackAddends(ds) == IF ds = 1 THEN {0, 3} ELSE IF ds = 2 THEN {2} ELSE {4}
StackData(ds) ==
  UNION { { [i \in DOMAIN keys |-> [x |-> keys[i], y |-> keys[i] + add[i]]] :
            add \in [DOMAIN keys -> StackAddends(ds)] } : keys \in KeyOrders }

InitStack ==
  /\ isVertical = TRUE
  /\ baselineValue = 0
  /\ xBound = TRUE /\ yBound = TRUE
  /\ xScale = StandardKeyScale
  /\ yScale = LinearScale(40, -4)
  /\ width = PlotWidthPx * PX /\ height = PlotHeightPx * PX
  /\ animate = FALSE
  /\ dataChanged = TRUE
  /\ renderRequested = TRUE
  /\ datasets \in { <<bottom, middle, top>> :
                      bottom \in StackData(1), middle \in StackData(2), top \in StackData(3) }
  /\ drawSteps = <<>>
  /\ rendered = <<>>
  /\ query = NoQuery
  /\ result = NoResult
  /\ thrown = NoError
  /\ warnings = {}
  /\ stackOffsets = [ds \in StackDatasetIds |-> <<>>]
  /\ InitLayer /\ InitGroup

NextStack ==
  \/ UpdateStackOffsets
  \/ StackedAreaPaint

SpecStack == InitStack /\ [][NextStack]_vars

---------------------------------------------------------------------------
(* Components.DragBoxLayer (components/dragBoxLayer.ts).  Coordinates are  *)
(* whole pixels.  The Drag interaction calls the drag-start callback with  *)
(* the start point, then the drag callback any number of times, then the   *)
(* drag-end callback with the start and the end point.  No callbacks of    *)
(* the user are registered.                                                *)

Coords == {0, 1, 3}
Points == { [x |-> px, y |-> py] : px \in Coords, py \in Coords }
Radii == {-1, 0, 1}

\* SelectionBoxLayer.bounds(newBounds): the bounds are stored as given or
\* with topLeft and bottomRight put in order, then render()
boundsStored(newBounds) ==
  { newBounds,
    [topLeft |-> [x |-> MinOf(newBounds.topLeft.x, newBounds.bottomRight.x),
                  y |-> MinOf(newBounds.topLeft.y, newBounds.bottomRight.y)],
     bottomRight |-> [x |-> MaxOf(newBounds.topLeft.x, newBounds.bottomRight.x),
                      y |-> MaxOf(newBounds.topLeft.y, newBounds.bottomRight.y)]] }

NoEdges == [top |-> FALSE, bottom |-> FALSE, left |-> FALSE, right |-> FALSE]

\* as getResizingEdges, without the test of resizable()
getResizingEdges_always(p) ==
  LET t == boxBounds.topLeft.y
      b == boxBounds.bottomRight.y
      l == boxBounds.topLeft.x
      r == boxBounds.bottomRight.x
      rad == detectionRadius
      overX == l - rad <= p.x /\ p.x <= r + rad
      overY == t - rad <= p.y /\ p.y <= b + rad
  IN [top |-> overX /\ t - rad <= p.y /\ p.y <= t + rad,
      bottom |-> overX /\ b - rad <= p.y /\ p.y <= b + rad,
      left |-> overY /\ l - rad <= p.x /\ p.x <= l + rad,
      right |-> overY /\ r - rad <= p.x /\ p.x <= r + rad]

\* DragBoxLayer._getResizingEdges
getResizingEdges(p) ==
  IF ~resizable THEN NoEdges
  ELSE
    LET t == boxBounds.topLeft.y
        b == boxBounds.bottomRight.y
        l == boxBounds.topLeft.x
        r == boxBounds.bottomRight.x
        rad == detectionRadius
        overX == l - rad <= p.x /\ p.x <= r + rad
        overY == t - rad <= p.y /\ p.y <= b + rad
    IN [top |-> overX /\ t - rad <= p.y /\ p.y <= t + rad,
        bottom |-> overX /\ b - rad <= p.y /\ p.y <= b + rad,
        left |-> overY /\ l - rad <= p.x /\ p.x <= l + rad,
        right |-> overY /\ r - rad <= p.x /\ p.x <= r + rad]

\* what no action on the layer changes
layerFrame == <<isVertical, baselineValue, xBound, yBound, xScale, yScale, width, height,
                animate, dataChanged, datasets, drawSteps, result, stackVars, groupVars>>

\* as DetectionRadius, without the test of the sign
DetectionRadius_unchecked(r) ==
  /\ query' = [kind |-> "detectionRadius", r |-> r]
  /\ thrown' = NoError
  /\ detectionRadius' = r
  /\ renderRequested' = TRUE
  /\ UNCHANGED <<resizable, boxVisible, boxBounds, resizingEdges, topLeft, bottomRight,
                 startedNewBox, dragging, rendered, layerFrame>>

\* DragBoxLayer.detectionRadius(r), r not null
DetectionRadius(r) ==
  /\ query' = [kind |-> "detectionRadius", r |-> r]
  /\ IF r < 0
     THEN /\ thrown' = "detection radius cannot be negative."
          /\ UNCHANGED <<detectionRadius, renderRequested>>
     ELSE /\ thrown' = NoError
          /\ detectionRadius' = r
          /\ renderRequested' = TRUE
  /\ UNCHANGED <<resizable, boxVisible, boxBounds, resizingEdges, topLeft, bottomRight,
                 startedNewBox, dragging, rendered, layerFrame>>

\* DragBoxLayer.resizable(canResize), canResize not null
Resizable(canResize) ==
  /\ query' = NoQuery
  /\ thrown' = NoError
  /\ resizable' = canResize
  /\ UNCHANGED <<detectionRadius, boxVisible, boxBounds, resizingEdges, topLeft,
                 bottomRight, startedNewBox, dragging, renderRequested, rendered,
                 layerFrame>>

\* the callback given to onDragStart
DragStart(s) ==
  LET edges == getResizingEdges(s)
      newBox == \/ ~boxVisible
                \/ ~edges.top /\ ~edges.bottom /\ ~edges.left /\ ~edges.right
  IN /\ ~dragging.active
     /\ dragging' = [active |-> TRUE, s |-> s]
     /\ query' = NoQuery
     /\ thrown' = NoError
     /\ resizingEdges' = edges
     /\ startedNewBox' = newBox
     /\ IF newBox THEN boxBounds' \in boundsStored([topLeft |-> s, bottomRight |-> s])
                  ELSE boxBounds' = boxBounds
     /\ boxVisible' = TRUE
     /\ topLeft' = boxBounds'.topLeft
     /\ bottomRight' = boxBounds'.bottomRight
     /\ renderRequested' = TRUE
     /\ UNCHANGED <<detectionRadius, resizable, rendered, layerFrame>>

\* as Drag, moving the edges of a new box whatever the gesture
Drag_newBox(e) ==
  /\ dragging.active
  /\ dragging' = dragging
  /\ query' = NoQuery
  /\ thrown' = NoError
  /\ topLeft' = topLeft
  /\ bottomRight' = e
  /\ boxBounds' \in boundsStored([topLeft |-> topLeft', bottomRight |-> bottomRight'])
  /\ renderRequested' = TRUE
  /\ UNCHANGED <<detectionRadius, resizable, boxVisible, resizingEdges, startedNewBox,
                 rendered, layerFrame>>

\* the callback given to onDrag
Drag(e) ==
  /\ dragging.active
  /\ dragging' = dragging
  /\ query' = NoQuery
  /\ thrown' = NoError
  /\ IF startedNewBox
     THEN /\ topLeft' = topLeft
          /\ bottomRight' = e
     ELSE /\ topLeft' =
               [x |-> IF ~resizingEdges.right /\ resizingEdges.left THEN e.x ELSE topLeft.x,
                y |-> IF ~resizingEdges.bottom /\ resizingEdges.top THEN e.y ELSE topLeft.y]
          /\ bottomRight' =
               [x |-> IF resizingEdges.right THEN e.x ELSE bottomRight.x,
                y |-> IF resizingEdges.bottom THEN e.y ELSE bottomRight.y]
  /\ boxBounds' \in boundsStored([topLeft |-> topLeft', bottomRight |-> bottomRight'])
  /\ renderRequested' = TRUE
  /\ UNCHANGED <<detectionRadius, resizable, boxVisible, resizingEdges, startedNewBox,
                 rendered, layerFrame>>

\* as DragEnd, hiding the box of every gesture that ends where it started
DragEnd_hidesResized(e) ==
  /\ dragging.active
  /\ dragging' = NoDrag
  /\ query' = [kind |-> "dragEnd", s |-> dragging.s, e |-> e]
  /\ thrown' = NoError
  /\ IF dragging.s.x = e.x /\ dragging.s.y = e.y
     THEN boxVisible' = FALSE /\ renderRequested' = TRUE
     ELSE UNCHANGED <<boxVisible, renderRequested>>
  /\ UNCHANGED <<detectionRadius, resizable, boxBounds, resizingEdges, topLeft, bottomRight,
                 startedNewBox, rendered, layerFrame>>

\* the callback given to onDragEnd
DragEnd(e) ==
  /\ dragging.active
  /\ dragging' = NoDrag
  /\ query' = [kind |-> "dragEnd", s |-> dragging.s, e |-> e]
  /\ thrown' = NoError
  /\ IF startedNewBox /\ dragging.s.x = e.x /\ dragging.s.y = e.y
     THEN boxVisible' = FALSE /\ renderRequested' = TRUE
     ELSE UNCHANGED <<boxVisible, renderRequested>>
  /\ UNCHANGED <<detectionRadius, resizable, boxBounds, resizingEdges, topLeft, bottomRight,
                 startedNewBox, rendered, layerFrame>>

\* DragBoxLayer.renderImmediately: the detection edges of a visible box
RenderImmediately ==
  /\ renderRequested
  /\ renderRequested' = FALSE
  /\ query' = NoQuery
  /\ thrown' = NoError
  /\ rendered' = IF boxVisible
                 THEN <<[t |-> boxBounds.topLeft.y, b |-> boxBounds.bottomRight.y,
                         l |-> boxBounds.topLeft.x, r |-> boxBounds.bottomRight.x,
                         strokeWidth |-> detectionRadius * 2]>>
                 ELSE rendered
  /\ UNCHANGED <<detectionRadius, resizable, boxVisible, boxBounds, resizingEdges, topLeft,
                 bottomRight, startedNewBox, dragging, layerFrame>>

\* new DragBoxLayer()
InitDrag ==
  /\ isVertical = TRUE
  /\ baselineValue = 0
  /\ xBound = FALSE /\ yBound = FALSE
  /\ xScale = StandardKeyScale
  /\ yScale = StandardKeyScale
  /\ width = PlotWidthPx * PX /\ height = PlotHeightPx * PX
  /\ animate = FALSE
  /\ dataChanged = FALSE
  /\ renderRequested = FALSE
  /\ datasets = [ds \in DatasetIds |-> <<>>]
  /\ drawSteps = <<>>
  /\ rendered = <<>>
  /\ query = NoQuery
  /\ result = NoResult
  /\ thrown = NoError
  /\ warnings = {}
  /\ stackOffsets = NoOffsets
  /\ InitLayer /\ InitGroup

\* the layer under configuration calls, renders and gestures between two
\* corners
CornerPoints == { [x |-> 0, y |-> 0], [x |-> 3, y |-> 3] }

NextLayer ==
  \/ \E r \in Radii : DetectionRadius(r)
  \/ \E canResize \in BOOLEAN : Resizable(canResize)
  \/ \E s \in CornerPoints : DragStart(s)
  \/ \E e \in CornerPoints : Drag(e)
  \/ \E e \in CornerPoints : DragEnd(e)
  \/ RenderImmediately

SpecLayer == InitDrag /\ [][NextLayer]_vars

\* a layer configured with a detection radius and resizable or not, under
\* gestures over all points
InitGesture ==
  /\ isVertical = TRUE
  /\ baselineValue = 0
  /\ xBound = FALSE /\ yBound = FALSE
  /\ xScale = StandardKeyScale
  /\ yScale = StandardKeyScale
  /\ width = PlotWidthPx * PX /\ height = PlotHeightPx * PX
  /\ animate = FALSE
  /\ dataChanged = FALSE
  /\ renderRequested \in BOOLEAN
  /\ datasets = [ds \in DatasetIds |-> <<>>]
  /\ drawSteps = <<>>
  /\ rendered = <<>>
  /\ query = NoQuery
  /\ result = NoResult
  /\ thrown = NoError
  /\ warnings = {}
  /\ stackOffsets = NoOffsets
  /\ detectionRadius \in { r \in Radii \cup {3} : r >= 0 }
  /\ resizable \in BOOLEAN
  /\ boxVisible = FALSE
  /\ boxBounds = [topLeft |-> [x |-> 0, y |-> 0], bottomRight |-> [x |-> 0, y |-> 0]]
  /\ resizingEdges = Undefined
  /\ topLeft = Undefined
  /\ bottomRight = Undefined
  /\ startedNewBox = Undefined
  /\ dragging = NoDrag
  /\ InitGroup

NextDrag ==
  \/ \E s \in Points : DragStart(s)
  \/ \E e \in Points : Drag(e)
  \/ \E e \in Points : DragEnd(e)

SpecDrag == InitGesture /\ [][NextDrag]_vars

---------------------------------------------------------------------------
(* Components.Group: components rendered on top of each other *)

\* the components handed to a Group, and the lists handed to its constructor
Components == { [id |-> i] : i \in 1 .. 4 }
ComponentsOrNull == Components \cup {Null}
ComponentLists ==
  {<<>>} \cup { <<c>> : c \in ComponentsOrNull }
         \cup { <<c, d>> : c \in ComponentsOrNull, d \in ComponentsOrNull }

\* Array indexOf: the index from 0 of the first occurrence, or -1
indexOf(list, component) ==
  IF \E i \in 1 .. Len(list) : list[i] = component
  THEN (CHOOSE i \in 1 .. Len(list) :
          /\ list[i] = component
          /\ \A j \in 1 .. (i - 1) : list[j] # component) - 1
  ELSE -1

\* Array splice(removeIndex, 1): the list without the element at the index
splice(list, removeIndex) ==
  [i \in 1 .. (Len(list) - 1) |-> IF i <= removeIndex THEN list[i] ELSE list[i + 1]]

\* Group.has on a list of components
has(list, component) == indexOf(list, component) >= 0

\* as appended, without the test of membership
appended_unchecked(list, component) ==
  IF component # Null THEN Append(list, component) ELSE list

\* the component list after Group.append of the component
appended(list, component) ==
  IF component # Null /\ ~has(list, component)
  THEN Append(list, component)
  ELSE list

\* the component list after the constructor's components.forEach(append)
RECURSIVE constructed(_, _)
constructed(list, cs) ==
  IF cs = <<>> THEN list ELSE constructed(appended(list, Head(cs)), Tail(cs))

groupFrame == <<isVertical, baselineValue, xBound, yBound, xScale, yScale, width, height,
                animate, dataChanged, datasets, drawSteps, rendered, stackVars, layerVars>>

\* Group.append: a component that is not null and not in the group is detached
\* from where it was, pushed, anchored, and the group is redrawn; the call
\* returns the group
append(component) ==
  /\ query' = [kind |-> "append", component |-> component]
  /\ thrown' = NoError
  /\ components' = appended(components, component)
  /\ renderRequested' = IF component # Null /\ ~has(components, component)
                        THEN TRUE
                        ELSE renderRequested
  /\ UNCHANGED <<result, groupFrame>>

\* Group._remove
remove(component) ==
  LET removeIndex == indexOf(components, component)
  IN /\ query' = [kind |-> "remove", component |-> component]
     /\ thrown' = NoError
     /\ IF removeIndex >= 0
        THEN /\ components' = splice(components, removeIndex)
             /\ result' = TRUE
        ELSE /\ components' = components
             /\ result' = FALSE
     /\ UNCHANGED <<renderRequested, groupFrame>>

\* a Group constructed from a list of components
InitComponents ==
  /\ isVertical = TRUE
  /\ baselineValue = 0
  /\ xBound = FALSE /\ yBound = FALSE
  /\ xScale = StandardKeyScale
  /\ yScale = StandardKeyScale
  /\ width = PlotWidthPx * PX /\ height = PlotHeightPx * PX
  /\ animate = FALSE
  /\ dataChanged = FALSE
  /\ renderRequested = FALSE
  /\ datasets = [ds \in DatasetIds |-> <<>>]
  /\ drawSteps = <<>>
  /\ rendered = <<>>
  /\ query = NoQuery
  /\ result = NoResult
  /\ thrown = NoError
  /\ warnings = {}
  /\ stackOffsets = NoOffsets
  /\ InitLayer
  /\ components \in { constructed(<<>>, cs) : cs \in ComponentLists }

NextGroup ==
  \/ \E component \in ComponentsOrNull : append(component)
  \/ \E component \in ComponentsOrNull : remove(component)

SpecGroup == InitComponents /\ [][NextGroup]_vars

---------------------------------------------------------------------------
(* Entities.  Plot.entities() gives one entity per drawn datum, in draw    *)
(* order, with the rect of the datum as its selection; Bar.entities()      *)
(* moves the position to the end of the bar and centres it.                *)

\* Utils.DOM.getBBox(selection): the bounding box of a rect is its attributes
getBBox(selection) == selection

\* Bar._pixelPoint
pixelPoint(d) ==
  LET a == generateAttrToProjector(d)
  IN [ x |-> IF isVertical THEN a.x + a.width \div 2 ELSE a.x + a.width,
       y |-> IF isVertical THEN a.y ELSE a.y + a.height \div 2 ]

\* Bar.entities: the entity of one rect
entityOf(rect) ==
  LET bar == rect.attr
      p0 == pixelPoint(rect.datum)
      py == IF isVertical /\ Floor(bar.y) >= Floor(scaledBaseline)
            THEN p0.y + bar.height ELSE p0.y
      px == IF ~isVertical /\ Floor(bar.x) < Floor(scaledBaseline)
            THEN p0.x - bar.width ELSE p0.x
  IN [ datum |-> rect.datum, index |-> rect.index, dataset |-> rect.dataset,
       position |-> [ x |-> IF isVertical THEN bar.x + bar.width \div 2 ELSE px,
                      y |-> IF isVertical THEN py ELSE bar.y + bar.height \div 2 ],
       selection |-> bar ]

entities ==
  IF ~projectorsReady THEN <<>>
  ELSE [j \in DOMAIN rendered |-> entityOf(rendered[j])]

---------------------------------------------------------------------------
(* Utils.Methods.intersectsBBox(xValOrRange, yValOrRange, bbox, tolerance) *)

\* a number stands for the range from it to itself; the callers that pass a
\* number pass parseRange of it
parseRange(v) == [min |-> v, max |-> v]

DefaultTolerance == 0

intersectsBBox(xRange, yRange, bbox, tol) ==
  /\ bbox.x + bbox.width >= xRange.min - tol
  /\ bbox.x <= xRange.max + tol
  /\ bbox.y + bbox.height >= yRange.min - tol
  /\ bbox.y <= yRange.max + tol

---------------------------------------------------------------------------
(* Bar._isVisibleOnPlot *)

\* as isVisibleOnPlot, with no entity filtered out
isVisibleOnPlot_always(datum, pixelPt, selection) == TRUE

isVisibleOnPlot(datum, pixelPt, selection) ==
  LET xRange == [min |-> 0, max |-> width]
      yRange == [min |-> 0, max |-> height]
      barBBox == selection
  IN intersectsBBox(xRange, yRange, barBBox, DefaultTolerance)

---------------------------------------------------------------------------
(* Bar.entityNearest *)

Infinity == 1000000000
\* as tolerance, of a whole pixel
tolerance_wholePixel == PX
tolerance == PX \div 2

\* as distances, with the primary and secondary directions exchanged
distances_exchanged(entity, queryPoint) ==
  LET queryPtPrimary == IF isVertical THEN queryPoint.y ELSE queryPoint.x
      queryPtSecondary == IF isVertical THEN queryPoint.x ELSE queryPoint.y
      plotPt == entity.position
      barBBox == getBBox(entity.selection)
  IN IF intersectsBBox(parseRange(queryPoint.x), parseRange(queryPoint.y), barBBox, tolerance)
     THEN [primaryDist |-> 0, secondaryDist |-> 0]
     ELSE
       LET plotPtPrimary == IF isVertical THEN plotPt.y ELSE plotPt.x
           barMinSecondary == IF isVertical THEN barBBox.x ELSE barBBox.y
           barMaxSecondary ==
             barMinSecondary + (IF isVertical THEN barBBox.width ELSE barBBox.height)
           plotPtSecondary == IF isVertical THEN plotPt.x ELSE plotPt.y
       IN [ primaryDist |-> Abs(queryPtPrimary - plotPtPrimary),
            secondaryDist |->
              IF /\ queryPtSecondary >= barMinSecondary - tolerance
                 /\ queryPtSecondary <= barMaxSecondary + tolerance
              THEN 0
              ELSE Abs(queryPtSecondary - plotPtSecondary) ]

\* the forEach callback up to the comparison: the two distances of an entity
distances(entity, queryPoint) ==
  LET queryPtPrimary == IF isVertical THEN queryPoint.x ELSE queryPoint.y
      queryPtSecondary == IF isVertical THEN queryPoint.y ELSE queryPoint.x
      plotPt == entity.position
      barBBox == getBBox(entity.selection)
  IN IF intersectsBBox(parseRange(queryPoint.x), parseRange(queryPoint.y), barBBox, tolerance)
     THEN [primaryDist |-> 0, secondaryDist |-> 0]
     ELSE
       LET plotPtPrimary == IF isVertical THEN plotPt.x ELSE plotPt.y
           barMinSecondary == IF isVertical THEN barBBox.y ELSE barBBox.x
           barMaxSecondary ==
             barMinSecondary + (IF isVertical THEN barBBox.height ELSE barBBox.width)
           plotPtSecondary == IF isVertical THEN plotPt.y ELSE plotPt.x
       IN [ primaryDist |-> Abs(queryPtPrimary - plotPtPrimary),
            secondaryDist |->
              IF /\ queryPtSecondary >= barMinSecondary - tolerance
                 /\ queryPtSecondary <= barMaxSecondary + tolerance
              THEN 0
              ELSE Abs(queryPtSecondary - plotPtSecondary) ]

\* as closer, taking a bar that is exactly as close as the closest so far
closer_orEqual(dist, acc) ==
  \/ dist.primaryDist < acc.minPrimaryDist
  \/ dist.primaryDist = acc.minPrimaryDist /\ dist.secondaryDist <= acc.minSecondaryDist

\* as closer, comparing the secondary distance alone on a tie or not
closer_secondaryOnly(dist, acc) ==
  \/ dist.primaryDist < acc.minPrimaryDist
  \/ dist.secondaryDist < acc.minSecondaryDist

\* "if we find a closer bar"
closer(dist, acc) ==
  \/ dist.primaryDist < acc.minPrimaryDist
  \/ dist.primaryDist = acc.minPrimaryDist /\ dist.secondaryDist < acc.minSecondaryDist

\* as nearestStep, recording the closer bar but not its distances
nearestStep_keepsMin(acc, entity, queryPoint) ==
  IF ~isVisibleOnPlot(entity.datum, entity.position, entity.selection) THEN acc
  ELSE
    LET dist == distances(entity, queryPoint)
    IN IF closer(dist, acc) THEN [acc EXCEPT !.closest = <<entity>>] ELSE acc

\* one call of the forEach callback; closest is <<>> while undefined
nearestStep(acc, entity, queryPoint) ==
  IF ~isVisibleOnPlot(entity.datum, entity.position, entity.selection) THEN acc
  ELSE
    LET dist == distances(entity, queryPoint)
    IN IF closer(dist, acc)
       THEN [ closest |-> <<entity>>, minPrimaryDist |-> dist.primaryDist,
              minSecondaryDist |-> dist.secondaryDist ]
       ELSE acc

RECURSIVE nearestFrom(_, _, _, _)
nearestFrom(es, i, acc, queryPoint) ==
  IF i > Len(es) THEN acc
  ELSE nearestFrom(es, i + 1, nearestStep(acc, es[i], queryPoint), queryPoint)

entityNearest(queryPoint) ==
  nearestFrom(entities, 1,
              [closest |-> <<>>, minPrimaryDist |-> Infinity, minSecondaryDist |-> Infinity],
              queryPoint).closest

---------------------------------------------------------------------------
(* Bar.entitiesAt, Bar.entitiesIn, Bar._entitiesIntersecting *)

RECURSIVE intersectingFrom(_, _, _, _)
intersectingFrom(es, i, xValOrRange, yValOrRange) ==
  IF i > Len(es) THEN <<>>
  ELSE (IF intersectsBBox(xValOrRange, yValOrRange, getBBox(es[i].selection), DefaultTolerance)
        THEN <<es[i]>> ELSE <<>>)
       \o intersectingFrom(es, i + 1, xValOrRange, yValOrRange)

\* as entitiesIntersecting, with the intersected entities in reverse order
RECURSIVE intersectingReversed(_, _, _, _)
intersectingReversed(es, i, xValOrRange, yValOrRange) ==
  IF i > Len(es) THEN <<>>
  ELSE intersectingReversed(es, i + 1, xValOrRange, yValOrRange)
       \o (IF intersectsBBox(xValOrRange, yValOrRange, getBBox(es[i].selection),
                             DefaultTolerance)
           THEN <<es[i]>> ELSE <<>>)
entitiesIntersecting_unshift(xValOrRange, yValOrRange) ==
  intersectingReversed(entities, 1, xValOrRange, yValOrRange)

entitiesIntersecting(xValOrRange, yValOrRange) ==
  intersectingFrom(entities, 1, xValOrRange, yValOrRange)

entitiesAt(p) == entitiesIntersecting(parseRange(p.x), parseRange(p.y))

entitiesIn(xRangeOrBounds, yRange) ==
  LET bounds == xRangeOrBounds
      dataXRange == IF yRange = Null
                    THEN [min |-> bounds.topLeft.x, max |-> bounds.bottomRight.x]
                    ELSE xRangeOrBounds
      dataYRange == IF yRange = Null
                    THEN [min |-> bounds.topLeft.y, max |-> bounds.bottomRight.y]
                    ELSE yRange
  IN entitiesIntersecting(dataXRange, dataYRange)

---------------------------------------------------------------------------
(* Spatial queries over a painted plot.  The plot is configured with the   *)
(* standard scales, any baseline and any data, and painted; the queries    *)
(* are made when the rects in the DOM are those of the current data (or    *)
(* before the projectors are ready, when there are no entities), at the    *)
(* points and rectangles on and around the drawn rects.                    *)

DomInSync == ~renderRequested \/ ~projectorsReady

\* A query changes nothing in the plot and its result does not depend on the
\* queries made before it: one query per behaviour reaches every query.
Queryable == DomInSync /\ query = NoQuery

\* the data of the queried plots: two keys inside the plot, one key (3) whose
\* mark lies beyond its width, values on both sides of the baseline, and a
\* datum that is not drawn
QueryData == { Datum(1, 2), Datum(2, -1), Datum(2, 2), Datum(3, 2), Datum(1, NaN) }

\* the points around one bounding box
PointsAround(b) ==
  LET lx == b.x  hx == b.x + b.width   mx == b.x + b.width \div 2
      ly == b.y  hy == b.y + b.height  my == b.y + b.height \div 2
      h == PX \div 2
  IN { [x |-> mx, y |-> my], [x |-> lx, y |-> ly],
       [x |-> mx, y |-> ly + h], [x |-> lx + h, y |-> my],
       [x |-> lx - h, y |-> ly - h], [x |-> lx - h - 1, y |-> my],
       [x |-> mx, y |-> hy + PX], [x |-> hx + PX, y |-> my],
       [x |-> hx + PX, y |-> hy + PX], [x |-> hx + h, y |-> hy + h],
       [x |-> hx + h + 1, y |-> hy + h], [x |-> hx + h, y |-> hy + h + 1] }

QueryPoints ==
  {[x |-> 0, y |-> 0]} \cup UNION { PointsAround(rendered[j].attr) : j \in DOMAIN rendered }

\* the corners of the query rectangles
CornersOf(b) ==
  { [x |-> b.x, y |-> b.y], [x |-> b.x + b.width, y |-> b.y + b.height],
    [x |-> b.x + b.width + PX \div 2, y |-> b.y + b.height + PX \div 2] }

QueryCorners ==
  {[x |-> 0, y |-> 0]} \cup UNION { CornersOf(rendered[j].attr) : j \in DOMAIN rendered }

QueryBounds ==
  { [topLeft |-> c[1], bottomRight |-> c[2]] :
      c \in { c \in QueryCorners \X QueryCorners : c[1].x <= c[2].x /\ c[1].y <= c[2].y } }

InitQuery ==
  /\ isVertical \in BOOLEAN
  /\ baselineValue \in BaselineValues
  /\ xBound \in BOOLEAN /\ yBound = xBound
  /\ xScale = IF isVertical THEN StandardKeyScale ELSE StandardValueScale
  /\ yScale = IF isVertical THEN StandardValueScale ELSE StandardKeyScale
  /\ width = PlotWidthPx * PX /\ height = PlotHeightPx * PX
  /\ animate = FALSE
  /\ dataChanged = FALSE
  /\ renderRequested = TRUE
  /\ datasets \in DataChoices(QueryData)
  /\ drawSteps = <<>>
  /\ rendered = <<>>
  /\ query = NoQuery
  /\ result = NoResult
  /\ thrown = NoError
  /\ warnings = {}
  /\ stackOffsets = NoOffsets
  /\ InitLayer /\ InitGroup

\* Bar.entityNearest(queryPoint)
EntityNearest(queryPoint) ==
  /\ Queryable
  /\ query' = [kind |-> "entityNearest", queryPoint |-> queryPoint]
  /\ result' = entityNearest(queryPoint)
  /\ UNCHANGED <<plotVars, thrown, stackVars, layerVars, groupVars>>

\* Bar.entitiesAt(p)
EntitiesAt(p) ==
  /\ Queryable
  /\ query' = [kind |-> "entitiesAt", p |-> p]
  /\ result' = entitiesAt(p)
  /\ UNCHANGED <<plotVars, thrown, stackVars, layerVars, groupVars>>

\* Bar.entitiesIn(bounds)
EntitiesInBounds(bounds) ==
  /\ Queryable
  /\ query' = [kind |-> "entitiesIn", xRangeOrBounds |-> bounds, yRange |-> Null]
  /\ result' = entitiesIn(bounds, Null)
  /\ UNCHANGED <<plotVars, thrown, stackVars, layerVars, groupVars>>

\* Bar.entitiesIn(xRange, yRange)
EntitiesInRanges(xRange, yRange) ==
  /\ Queryable
  /\ query' = [kind |-> "entitiesIn", xRangeOrBounds |-> xRange, yRange |-> yRange]
  /\ result' = entitiesIn(xRange, yRange)
  /\ UNCHANGED <<plotVars, thrown, stackVars, layerVars, groupVars>>

NextQuery ==
  \/ Paint
  \/ \E queryPoint \in QueryPoints : EntityNearest(queryPoint)
  \/ \E p \in QueryPoints : EntitiesAt(p)
  \/ \E bounds \in QueryBounds : EntitiesInBounds(bounds)
  \/ \E corner \in QueryCorners :
       EntitiesInRanges([min |-> 0, max |-> corner.x], [min |-> 0, max |-> corner.y])

SpecQuery == InitQuery /\ [][NextQuery]_vars

---------------------------------------------------------------------------
(* Vocabulary of the claims: the four geometric attributes of a mark, the  *)
(* scaled baseline and the raw pixel of a datum on the length axis.         *)

PrimaryOffsetOf(a) == IF isVertical THEN a.y ELSE a.x
SecondaryOffsetOf(a) == IF isVertical THEN a.x ELSE a.y
LengthOf(a) == IF isVertical THEN a.height ELSE a.width
ThicknessOf(a) == IF isVertical THEN a.width ELSE a.height

LengthAxisScale == IF isVertical THEN yScale ELSE xScale
ScaledBaselinePx == scale(LengthAxisScale, baselineValue)
RawPrimaryPx(d) == scale(LengthAxisScale, IF isVertical THEN d.y ELSE d.x)
Distance(a, b) == IF a < b THEN b - a ELSE a - b

Painted == drawSteps # <<>>
MainAttr(p) == drawSteps[Len(drawSteps)].attrToProjector[p[1]][p[2]]
DatumAt(p) == datasets[p[1]][p[2]]
\* the data with a valid number on the length axis
NumericData == { p \in DataIndex : isValidNumber(RawPrimaryPx(DatumAt(p))) }

\* a step of the plot in which the registered render is flushed
PaintStep == renderRequested /\ ~renderRequested'

(* C1: baseline invariant.  For every datum, baseline and orientation the  *)
(* projected mark spans exactly from the scaled baseline to the scaled raw *)
(* value: min(offset, offset + length) = min(scaledBaseline, raw) and the  *)
(* same for max; so do the y and height of BarRenderer._paint.             *)
C1_BaselineInvariant ==
  /\ Painted =>
       \A p \in NumericData :
         LET off == PrimaryOffsetOf(MainAttr(p))
             len == LengthOf(MainAttr(p))
             raw == RawPrimaryPx(DatumAt(p))
         IN /\ MinOf(off, off + len) = MinOf(ScaledBaselinePx, raw)
            /\ MaxOf(off, off + len) = MaxOf(ScaledBaselinePx, raw)
  /\ \A p \in DataIndex :
       LET raw == scale(yScale, DatumAt(p).y)
           sb == scale(yScale, baselineValue)
           off == barRendererY(raw, sb)
           len == barRendererHeight(raw, sb)
       IN isValidNumber(raw) =>
            /\ MinOf(off, off + len) = MinOf(sb, raw)
            /\ MaxOf(off, off + len) = MaxOf(sb, raw)

\* a painted plot with a mark on each side of the baseline
C1_Witness ==
  /\ Painted
  /\ \E p \in NumericData : RawPrimaryPx(DatumAt(p)) > ScaledBaselinePx
  /\ \E p \in NumericData : RawPrimaryPx(DatumAt(p)) < ScaledBaselinePx

(* C2 as stated: the primary offset of every projected mark is the endpoint *)
(* of the mark nearer the scaled baseline, the mark extending away from it. *)
C2_OffsetNearerBaseline ==
  Painted =>
    \A p \in NumericData :
      LET off == PrimaryOffsetOf(MainAttr(p))
          len == LengthOf(MainAttr(p))
      IN Distance(off, ScaledBaselinePx) <= Distance(off + len, ScaledBaselinePx)

(* C2 as amended: the primary offset is the smaller pixel coordinate of the *)
(* two endpoints.  A mark whose raw pixel is past the baseline (raw >       *)
(* scaledBaseline) starts at the baseline and extends away from it to raw;  *)
(* a mark with raw < scaledBaseline starts at raw, the endpoint farther     *)
(* from the baseline, and extends length pixels toward the baseline, ending *)
(* at it.                                                                   *)
C2_OffsetIsLowerEndpoint ==
  Painted =>
    \A p \in NumericData :
      LET off == PrimaryOffsetOf(MainAttr(p))
          len == LengthOf(MainAttr(p))
          raw == RawPrimaryPx(DatumAt(p))
      IN /\ raw > ScaledBaselinePx => off = ScaledBaselinePx /\ off + len = raw
         /\ raw < ScaledBaselinePx => off = raw /\ off + len = ScaledBaselinePx
         /\ raw = ScaledBaselinePx => off = ScaledBaselinePx /\ len = 0

\* a painted mark that starts at its raw pixel, away from the baseline
C2_Witness ==
  /\ Painted
  /\ \E p \in NumericData :
       /\ RawPrimaryPx(DatumAt(p)) < ScaledBaselinePx
       /\ PrimaryOffsetOf(MainAttr(p)) = RawPrimaryPx(DatumAt(p))
       /\ LengthOf(MainAttr(p)) > 0

(* C3: every projected mark has length >= 0 and thickness >= 0: the length *)
(* is |scaledBaseline - raw|, and the width solved by _getBarPixelWidth is *)
(* never negative, and 0 while the projectors are not ready.               *)
C3_NonNegativeGeometry ==
  /\ getBarPixelWidth >= 0
  /\ ~projectorsReady => getBarPixelWidth = 0
  /\ Painted =>
       \A p \in NumericData :
         /\ LengthOf(MainAttr(p)) >= 0
         /\ LengthOf(MainAttr(p)) = Distance(ScaledBaselinePx, RawPrimaryPx(DatumAt(p)))
         /\ ThicknessOf(MainAttr(p)) >= 0
         /\ ThicknessOf(MainAttr(p)) = getBarPixelWidth

\* a painted mark of positive length and thickness on a continuous scale
\* whose scaled positions are negative or reversed
C3_Witness ==
  /\ Painted
  /\ ~(IF isVertical THEN xScale ELSE yScale).category
  /\ (IF isVertical THEN xScale ELSE yScale).step < 0
  /\ \E p \in NumericData : LengthOf(MainAttr(p)) > 0 /\ ThicknessOf(MainAttr(p)) > 0

(* C4: _generateDrawSteps returns one or two phases: a reset phase, first, *)
(* exactly when the data changed and animation is enabled; the main phase  *)
(* always, last.                                                           *)
C4_DrawStepPhases ==
  [][PaintStep =>
       LET n == Len(drawSteps')
       IN /\ n \in {1, 2}
          /\ (n = 2) <=> (dataChanged /\ animate)
          /\ drawSteps'[n].animator = "main"
          /\ n = 2 => drawSteps'[1].animator = "reset"]_vars

\* a paint that produced the reset phase and the main phase
C4_Witness ==
  /\ Len(drawSteps) = 2
  /\ drawSteps[1].animator = "reset"
  /\ drawSteps[2].animator = "main"

(* C5: when the data changed and animation is enabled, the reset phase     *)
(* gives every mark length 0 and primary offset = scaled baseline, in the  *)
(* primary attribute of the orientation, and the secondary offset and      *)
(* thickness of the main phase; the main phase is the projection that a    *)
(* paint without animation makes.                                          *)
C5_ResetThenMain ==
  [][(PaintStep /\ dataChanged /\ animate) =>
       /\ Len(drawSteps') = 2
       /\ \A p \in DataIndex :
            LET r == drawSteps'[1].attrToProjector[p[1]][p[2]]
                m == drawSteps'[2].attrToProjector[p[1]][p[2]]
            IN /\ LengthOf(r) = 0
               /\ PrimaryOffsetOf(r) = ScaledBaselinePx
               /\ SecondaryOffsetOf(r) = SecondaryOffsetOf(m)
               /\ ThicknessOf(r) = ThicknessOf(m)
       /\ drawSteps'[2].attrToProjector = drawStepsFor(dataChanged, FALSE)[1].attrToProjector]_vars

\* an animated paint of changed data with a mark of non-zero length
C5_Witness ==
  /\ Len(drawSteps) = 2
  /\ \E ds \in DOMAIN drawSteps[2].attrToProjector :
       \E i \in DOMAIN drawSteps[2].attrToProjector[ds] :
         LET m == drawSteps[2].attrToProjector[ds][i]
         IN isValidNumber(LengthOf(m)) /\ LengthOf(m) > 0
            /\ LengthOf(drawSteps[1].attrToProjector[ds][i]) = 0

---------------------------------------------------------------------------
(* Vocabulary of the query claims *)

BBoxOf(e) == e.selection
\* the bounding box, grown by t on every side, contains the point
Contains(b, pt, t) ==
  /\ b.x - t <= pt.x /\ pt.x <= b.x + b.width + t
  /\ b.y - t <= pt.y /\ pt.y <= b.y + b.height + t
\* the bounding box overlaps the rectangle, touching edges included
Overlaps(b, xr, yr) ==
  /\ b.x <= xr.max /\ xr.min <= b.x + b.width
  /\ b.y <= yr.max /\ yr.min <= b.y + b.height
\* the visibility predicate: the bounding box intersects [0,width] x [0,height]
Visible(e) == Overlaps(BBoxOf(e), [min |-> 0, max |-> width], [min |-> 0, max |-> height])
HalfPixel == PX \div 2

VisibleIndices == { j \in DOMAIN entities : Visible(entities[j]) }
PairOf(j) == distances(entities[j], query.queryPoint)
LexLess(a, b) ==
  \/ a.primaryDist < b.primaryDist
  \/ a.primaryDist = b.primaryDist /\ a.secondaryDist < b.secondaryDist
NearestQueried == query.kind = "entityNearest"

(* C6: entityNearest returns the visible entity whose pair (primaryDist,   *)
(* secondaryDist) is lexicographically smallest, and of several with that  *)
(* pair the first in enumeration order.                                    *)
C6_NearestIsFirstLexMin ==
  (NearestQueried /\ VisibleIndices # {}) =>
    \E j \in VisibleIndices :
      /\ result = <<entities[j]>>
      /\ \A k \in VisibleIndices : ~LexLess(PairOf(k), PairOf(j))
      /\ \A k \in VisibleIndices : k < j => LexLess(PairOf(j), PairOf(k))

\* two visible entities are equally near and the first is returned; and in
\* the same plot shape a later entity can win by being strictly nearer
C6_Witness ==
  /\ NearestQueried
  /\ \E j, k \in VisibleIndices :
       /\ j < k
       /\ PairOf(j) = PairOf(k)
       /\ PairOf(j).primaryDist > 0
       /\ result = <<entities[j]>>

LengthSpan(b) == IF isVertical THEN [min |-> b.y, max |-> b.y + b.height]
                               ELSE [min |-> b.x, max |-> b.x + b.width]
ThicknessSpan(b) == IF isVertical THEN [min |-> b.x, max |-> b.x + b.width]
                                  ELSE [min |-> b.y, max |-> b.y + b.height]
LengthCoord(pt) == IF isVertical THEN pt.y ELSE pt.x
ThicknessCoord(pt) == IF isVertical THEN pt.x ELSE pt.y
Within(c, span, t) == span.min - t <= c /\ c <= span.max + t

(* C9 as stated: primaryDist is measured along the length axis (y for a    *)
(* vertical plot) and is 0 whenever the query coordinate on that axis is   *)
(* within the mark's span on it; secondaryDist is measured along the other *)
(* axis and is 0 whenever the query coordinate is within the span on it.   *)
C9_PrimaryAlongLengthAxis ==
  NearestQueried =>
    \A j \in VisibleIndices :
      LET b == BBoxOf(entities[j])
          q == query.queryPoint
      IN /\ Within(LengthCoord(q), LengthSpan(b), 0) => PairOf(j).primaryDist = 0
         /\ Within(ThicknessCoord(q), ThicknessSpan(b), 0) => PairOf(j).secondaryDist = 0

(* C9 as amended: primaryDist is measured along the thickness axis (x for  *)
(* a vertical plot, y for a horizontal one): it is 0 when the query point  *)
(* is inside the bounding box grown by 0.5 pixel, and otherwise the        *)
(* distance on that axis between the query point and the entity's position *)
(* (the centre of the mark on that axis), whatever the length-axis         *)
(* coordinate; secondaryDist is measured along the length axis: it is 0    *)
(* when the query coordinate is within 0.5 pixel of the mark's span on     *)
(* that axis, and otherwise the distance on that axis to the entity's      *)
(* position.                                                               *)
C9_PrimaryAlongThicknessAxis ==
  NearestQueried =>
    \A j \in VisibleIndices :
      LET b == BBoxOf(entities[j])
          q == query.queryPoint
          pos == entities[j].position
          inside == Contains(b, q, HalfPixel)
      IN /\ PairOf(j).primaryDist =
              IF inside THEN 0 ELSE Distance(ThicknessCoord(q), ThicknessCoord(pos))
         /\ PairOf(j).secondaryDist =
              IF Within(LengthCoord(q), LengthSpan(b), HalfPixel) THEN 0
              ELSE Distance(LengthCoord(q), LengthCoord(pos))
         /\ ThicknessCoord(pos) = (ThicknessSpan(b).min + ThicknessSpan(b).max) \div 2

\* a query point beside a mark: within its span on the length axis, outside
\* it on the thickness axis, with a primary distance that is not 0
C9_Witness ==
  /\ NearestQueried
  /\ \E j \in VisibleIndices :
       LET b == BBoxOf(entities[j])
           q == query.queryPoint
       IN /\ Within(LengthCoord(q), LengthSpan(b), 0)
          /\ ~Within(ThicknessCoord(q), ThicknessSpan(b), HalfPixel)
          /\ PairOf(j).primaryDist > 0
          /\ PairOf(j).secondaryDist = 0

\* the entities that satisfy P, in the order of entities
EntitiesWhere(P(_)) == SelectSeq(entities, P)

(* C10: entitiesAt(p) returns exactly the entities whose bounding box      *)
(* contains p, and entitiesIn(xRange, yRange) exactly those whose bounding *)
(* box overlaps the rectangle, touching edges included, both in draw       *)
(* order; entitiesIn(bounds) returns what entitiesIn of the ranges from    *)
(* topLeft to bottomRight returns.                                         *)
C10_IntersectingEntities ==
  /\ query.kind = "entitiesAt" =>
       result = EntitiesWhere(LAMBDA e : Contains(BBoxOf(e), query.p, 0))
  /\ (query.kind = "entitiesIn" /\ query.yRange # Null) =>
       result = EntitiesWhere(LAMBDA e : Overlaps(BBoxOf(e), query.xRangeOrBounds, query.yRange))
  /\ (query.kind = "entitiesIn" /\ query.yRange = Null) =>
       LET bounds == query.xRangeOrBounds
           xr == [min |-> bounds.topLeft.x, max |-> bounds.bottomRight.x]
           yr == [min |-> bounds.topLeft.y, max |-> bounds.bottomRight.y]
       IN /\ result = entitiesIn(xr, yr)
          /\ result = EntitiesWhere(LAMBDA e : Overlaps(BBoxOf(e), xr, yr))

\* a rectangle given as bounds that touches one rect at a corner and leaves
\* out another: the result is a proper, non-empty part of the entities
C10_Witness ==
  /\ query.kind = "entitiesIn"
  /\ query.yRange = Null
  /\ Len(result) = 1
  /\ Len(entities) = 2
  /\ result[1] = entities[2]
  /\ query.xRangeOrBounds.bottomRight = [x |-> result[1].selection.x, y |-> result[1].selection.y]

---------------------------------------------------------------------------
(* Vocabulary of the width claims: the thickness scale, the available      *)
(* extent on its axis, the distinct domain values and the width they give. *)

ThicknessScale == IF isVertical THEN xScale ELSE yScale
AvailableExtent == IF isVertical THEN width ELSE height
KeyOf(d) == IF isVertical THEN d.x ELSE d.y
DistinctKeys == { KeyOf(DatumAt(p)) : p \in DataIndex }
KeyPx(k) == scale(ThicknessScale, k)
\* the pixel gaps between the distinct values that are neighbours in ascending order
AdjacentGaps ==
  { Distance(KeyPx(pair[1]), KeyPx(pair[2])) :
      pair \in { pair \in DistinctKeys \X DistinctKeys :
                   /\ pair[1] < pair[2]
                   /\ ~\E k \in DistinctKeys : pair[1] < k /\ k < pair[2] } }
LeastOf(S) == CHOOSE m \in S : \A n \in S : m <= n
GreatestOf(S) == CHOOSE m \in S : \A n \in S : m >= n
CandidateWidth ==
  IF Cardinality(DistinctKeys) < 2 THEN (AvailableExtent * 40) \div 100
  ELSE LeastOf(AdjacentGaps)
\* the smallest and the largest scaled value, 0 without data
LeastKeyPx == IF DistinctKeys = {} THEN 0 ELSE LeastOf({ KeyPx(k) : k \in DistinctKeys })
GreatestKeyPx == IF DistinctKeys = {} THEN 0 ELSE GreatestOf({ KeyPx(k) : k \in DistinctKeys })
ClampedAtMin(w) == IF LeastKeyPx > 0 THEN MinOf(w, 2 * LeastKeyPx) ELSE w
ClampedAtMax(w) ==
  IF GreatestKeyPx < AvailableExtent THEN MinOf(w, 2 * (AvailableExtent - GreatestKeyPx))
  ELSE w
ContinuousThickness == projectorsReady /\ ~ThicknessScale.category
DrawnData == { p \in DataIndex : \E j \in DOMAIN rendered :
                 rendered[j].dataset = p[1] /\ rendered[j].index = p[2] }

DrawnAtLeast == { p \in DrawnData : KeyPx(KeyOf(DatumAt(p))) = LeastKeyPx }
DrawnAtGreatest == { p \in DrawnData : KeyPx(KeyOf(DatumAt(p))) = GreatestKeyPx }

(* C12: on a continuous thickness scale, when the smallest scaled value m  *)
(* is > 0 the solved width is at most 2m and the mark centred at m does    *)
(* not start at a negative pixel; when the largest scaled value M is less  *)
(* than the available extent the width is at most 2(extent - M) and the    *)
(* mark centred at M does not end beyond the extent.                       *)
C12_ClampsKeepEdgeBarsInside ==
  ContinuousThickness =>
    /\ LeastKeyPx > 0 =>
         /\ getBarPixelWidth <= 2 * LeastKeyPx
         /\ Painted => \A p \in DrawnAtLeast : SecondaryOffsetOf(MainAttr(p)) >= 0
    /\ GreatestKeyPx < AvailableExtent =>
         /\ getBarPixelWidth <= 2 * (AvailableExtent - GreatestKeyPx)
         /\ Painted => \A p \in DrawnAtGreatest :
              SecondaryOffsetOf(MainAttr(p)) + ThicknessOf(MainAttr(p)) <= AvailableExtent

\* a painted plot in which the clamp at the smallest scaled value decides
\* the width of a drawn mark
C12_Witness ==
  /\ ContinuousThickness /\ Painted
  /\ LeastKeyPx > 0 /\ 2 * LeastKeyPx < CandidateWidth
  /\ DrawnAtLeast # {}
  /\ getBarPixelWidth = (2 * LeastKeyPx * 95) \div 100

\* a painted plot in which the clamp at the largest scaled value does
C12_WitnessAtMax ==
  /\ ContinuousThickness /\ Painted
  /\ GreatestKeyPx < AvailableExtent
  /\ 2 * (AvailableExtent - GreatestKeyPx) < ClampedAtMin(CandidateWidth)
  /\ DrawnAtGreatest # {}
  /\ getBarPixelWidth = (2 * (AvailableExtent - GreatestKeyPx) * 95) \div 100

\* a step in which the available extent grows or stays, the data, the
\* scales and so the scaled values being what they were
ExtentGrows ==
  /\ ContinuousThickness
  /\ AvailableExtent' >= AvailableExtent
  /\ UNCHANGED <<isVertical, xBound, yBound, xScale, yScale, datasets>>

(* C13 as stated: on a continuous thickness scale, with the distinct       *)
(* values and their scaled positions fixed, a larger available extent      *)
(* never gives a smaller solved width.                                     *)
C13_WidthMonotone ==
  [][ExtentGrows => getBarPixelWidth' >= getBarPixelWidth]_vars

(* C13 as amended: the same, when the largest scaled value is below the    *)
(* extent before it grows, or is not below the extent after it has grown.  *)
C13_WidthMonotoneWithinClamp ==
  [][(/\ ExtentGrows
      /\ \/ GreatestKeyPx < AvailableExtent
         \/ GreatestKeyPx >= AvailableExtent')
     => getBarPixelWidth' >= getBarPixelWidth]_vars

\* marks painted at one extent, and the extent then grown: the width now
\* solved is greater than the thickness of the marks
C13_Witness ==
  /\ ContinuousThickness /\ Painted /\ renderRequested
  /\ GreatestKeyPx < AvailableExtent
  /\ \E p \in DrawnData :
       /\ ThicknessOf(MainAttr(p)) > 0
       /\ ThicknessOf(MainAttr(p)) < getBarPixelWidth

\* the projected attributes of a datum are all numbers
ValidAt(p) ==
  /\ MainAttr(p).x # NaN /\ MainAttr(p).y # NaN
  /\ MainAttr(p).width # NaN /\ MainAttr(p).height # NaN
\* the indices 1..n in order
IndicesOf(ds) == [i \in 1..Len(datasets[ds]) |-> i]
InSync == Painted /\ ~renderRequested

(* C14: _getDataToDraw keeps, per dataset and in the original order,       *)
(* exactly the data whose projected x, y, width and height are all valid   *)
(* numbers; no mark is drawn for any other datum, and every other datum    *)
(* keeps its mark and its place.                                           *)
C14_DataToDraw ==
  InSync =>
    /\ \A ds \in DatasetIds :
         getDataToDraw[ds] = SelectSeq(IndicesOf(ds), LAMBDA i : ValidAt(<<ds, i>>))
    /\ DrawnData = { p \in DataIndex : ValidAt(p) }
    /\ \A j \in DOMAIN rendered :
         /\ rendered[j].datum = datasets[rendered[j].dataset][rendered[j].index]
         /\ rendered[j].attr = MainAttr(<<rendered[j].dataset, rendered[j].index>>)
    /\ \A j, k \in DOMAIN rendered :
         j < k => \/ rendered[j].dataset < rendered[k].dataset
                  \/ /\ rendered[j].dataset = rendered[k].dataset
                     /\ rendered[j].index < rendered[k].index

\* a dataset whose first datum has no valid projection and whose second has:
\* the second alone is drawn
C14_Witness ==
  /\ InSync
  /\ \E ds \in DatasetIds :
       /\ Len(datasets[ds]) = 2
       /\ ~ValidAt(<<ds, 1>>)
       /\ getDataToDraw[ds] = <<2>>
       /\ Len(rendered) = 1 /\ rendered[1].index = 2

(* C15: the constructor raises an error for an orientation other than     *)
(* "vertical" and "horizontal", leaving the baseline, the orientation and  *)
(* all geometry state as they were before it; with a valid orientation it  *)
(* raises none, and in every later state of the plot the orientation is   *)
(* the one it was constructed with.                                        *)
C15_ConstructorOrientation ==
  query.kind = "new" =>
    IF query.orientation \in { "vertical", "horizontal" }
    THEN /\ thrown = NoError
         /\ isVertical = (query.orientation = "vertical")
    ELSE /\ thrown # NoError
         /\ isVertical = Undefined /\ baselineValue = Undefined
         /\ xScale = Undefined /\ yScale = Undefined
         /\ ~xBound /\ ~yBound /\ ~renderRequested
         /\ drawSteps = <<>> /\ rendered = <<>>

\* the constructor has raised its error for the orientation "diagonal"
C15_Witness ==
  /\ query = [kind |-> "new", orientation |-> "diagonal"]
  /\ thrown = "diagonal is not a valid orientation for Plots.Bar"

\* a horizontal plot has been constructed, given data and painted
C15_WitnessValid ==
  /\ Constructed /\ query.orientation = "horizontal"
  /\ isVertical = FALSE /\ Len(rendered) = 2

\* the scaled baseline is one end of the span of the mark with attributes a
SpansFrom(a, scaledBaselinePx) ==
  scaledBaselinePx \in { PrimaryOffsetOf(a), PrimaryOffsetOf(a) + LengthOf(a) }

---------------------------------------------------------------------------
(* Stacking claims *)

StackUpdated == query = [kind |-> "updateStackOffsets"]
\* the domain keys of a dataset and of the stack group
KeysIn(ds) == { datasets[ds][i].x : i \in DOMAIN datasets[ds] }
GroupKeys == UNION { KeysIn(ds) : ds \in DOMAIN datasets }
\* the value of a dataset at a key, zero when the dataset lacks the key
ValueOrZero(ds, k) ==
  IF k \in KeysIn(ds)
  THEN (CHOOSE d \in { datasets[ds][i] : i \in DOMAIN datasets[ds] } : d.x = k).y
  ELSE 0
RECURSIVE SumOver(_, _)
SumOver(S, k) ==
  IF S = {} THEN 0
  ELSE LET ds == CHOOSE ds \in S : TRUE IN ValueOrZero(ds, k) + SumOver(S \ {ds}, k)
\* the datasets stacked below ds
Below(ds) == { other \in DOMAIN datasets : other < ds }
OffsetsResolved ==
  /\ DOMAIN stackOffsets = DOMAIN datasets
  /\ \A ds \in DOMAIN datasets :
       /\ DOMAIN stackOffsets[ds] = DOMAIN datasets[ds]
       /\ \A i \in DOMAIN datasets[ds] :
            stackOffsets[ds][i] = SumOver(Below(ds), datasets[ds][i].x)

(* C17: _updateStackOffsets never throws; it warns about exactly the       *)
(* datasets that lack a domain key of the group, about none when every     *)
(* dataset has all keys, and in both cases resolves the offsets, a missing *)
(* key counting as the value zero.                                         *)
C17_StackValidationWarns ==
  StackUpdated =>
    /\ thrown = NoError
    /\ warnings = { ds \in DOMAIN datasets : KeysIn(ds) # GroupKeys }
    /\ OffsetsResolved

\* the middle dataset lacks a key that the bottom and the top dataset have:
\* it is warned about, and the top datum at that key is offset by the bottom
\* value alone
C17_Witness ==
  /\ StackUpdated
  /\ 2 \in warnings
  /\ \E k \in KeysIn(1) \cap KeysIn(3) :
       /\ k \notin KeysIn(2)
       /\ \E i \in DOMAIN datasets[3] :
            /\ datasets[3][i].x = k
            /\ stackOffsets[3][i] = ValueOrZero(1, k)
            /\ stackOffsets[3][i] > 0

\* every dataset has both keys of the group and no warning was given
C17_WitnessConsistent ==
  /\ StackUpdated
  /\ warnings = {}
  /\ Cardinality(GroupKeys) = 2
  /\ \A ds \in DOMAIN datasets : KeysIn(ds) = GroupKeys

\* the topmost dataset with a datum at key k
TopAt(k) == CHOOSE ds \in DOMAIN datasets :
              /\ k \in KeysIn(ds)
              /\ \A other \in DOMAIN datasets : k \in KeysIn(other) => other <= ds

(* C18: stacking sum.  The stack offset of every datum is the sum of the   *)
(* values at its key of the datasets stacked below (values 1, 2 under 3, 4 *)
(* give the offsets 0, 0 and 1, 2); the projector puts the lower edge at   *)
(* scale(offset) and the upper edge at scale(value + offset), so the upper *)
(* edge of the topmost dataset at a key is the scaled sum of all values.   *)
C18_StackingSum ==
  /\ StackUpdated =>
       /\ OffsetsResolved
       /\ (/\ datasets[1] = <<[x |-> 1, y |-> 1], [x |-> 2, y |-> 2]>>
           /\ datasets[2] = <<[x |-> 1, y |-> 3], [x |-> 2, y |-> 4]>>)
          => (stackOffsets[1] = <<0, 0>> /\ stackOffsets[2] = <<1, 2>>)
  /\ Painted =>
       /\ \A ds \in DOMAIN datasets : \A i \in DOMAIN datasets[ds] :
            LET a == drawSteps[1].attrToProjector[ds][i]
                d == datasets[ds][i]
            IN /\ a.y0 = scale(yScale, SumOver(Below(ds), d.x))
               /\ a.y = scale(yScale, d.y + SumOver(Below(ds), d.x))
       /\ \A k \in GroupKeys :
            \E i \in DOMAIN datasets[TopAt(k)] :
              /\ datasets[TopAt(k)][i].x = k
              /\ drawSteps[1].attrToProjector[TopAt(k)][i].y
                   = scale(yScale, SumOver(DOMAIN datasets, k))

\* the values 1, 2 under 3, 4 have been stacked and painted
C18_Witness ==
  /\ Painted
  /\ datasets[1] = <<[x |-> 1, y |-> 1], [x |-> 2, y |-> 2]>>
  /\ datasets[2] = <<[x |-> 1, y |-> 3], [x |-> 2, y |-> 4]>>
  /\ stackOffsets[2] = <<1, 2>>
  /\ drawSteps[1].attrToProjector[2][2].y0 = scale(yScale, 2)
  /\ drawSteps[1].attrToProjector[2][2].y = scale(yScale, 6)
  /\ scale(yScale, 6) # scale(yScale, 4)

---------------------------------------------------------------------------
(* Degenerate domains of the width solver *)

\* a single point, all points equal, or neighbouring values scaled to the
\* same pixel
DegenerateDomain == Cardinality(DistinctKeys) <= 1 \/ 0 \in AdjacentGaps

(* C19: under a degenerate domain a zero or negative candidate width is    *)
(* replaced by a floor value: the solved width is positive.                *)
C19_DegenerateCandidateFloored ==
  (ContinuousThickness /\ DegenerateDomain /\ CandidateWidth <= 0)
    => getBarPixelWidth > 0

\* two distinct values scaled to the same pixel: the candidate is the gap 0
C19_ZeroGapReturned ==
  /\ ContinuousThickness
  /\ Cardinality(DistinctKeys) = 2 /\ AdjacentGaps = {0}
  /\ AvailableExtent > 0
  /\ CandidateWidth = 0 /\ getBarPixelWidth = 0

---------------------------------------------------------------------------
(* The tolerance of the nearest-entity query *)

(* C20: in entityNearest a query point up to 0.5 pixel outside the         *)
(* bounding box of a visible mark counts as inside it (both distances 0),  *)
(* a point more than 0.5 pixel outside does not, and for such a point the  *)
(* secondary distance is 0 exactly when its coordinate is at most 0.5      *)
(* pixel beyond either end of the mark's span.                             *)
C20_HalfPixelTolerance ==
  NearestQueried =>
    \A j \in VisibleIndices :
      LET b == BBoxOf(entities[j])
          q == query.queryPoint
      IN IF Contains(b, q, HalfPixel)
         THEN PairOf(j) = [primaryDist |-> 0, secondaryDist |-> 0]
         ELSE /\ PairOf(j) # [primaryDist |-> 0, secondaryDist |-> 0]
              /\ PairOf(j).secondaryDist = 0
                   <=> Within(LengthCoord(q), LengthSpan(b), HalfPixel)

\* a query point outside a visible mark, exactly 0.5 pixel from it on both
\* axes, has both distances 0
C20_Witness ==
  /\ NearestQueried
  /\ \E j \in VisibleIndices :
       LET b == BBoxOf(entities[j])
           q == query.queryPoint
       IN /\ (q.x = b.x - HalfPixel \/ q.x = b.x + b.width + HalfPixel)
          /\ (q.y = b.y - HalfPixel \/ q.y = b.y + b.height + HalfPixel)
          /\ PairOf(j) = [primaryDist |-> 0, secondaryDist |-> 0]

\* a query point just over 0.5 pixel outside a visible mark on the thickness
\* axis and exactly 0.5 pixel beyond the end of its span on the length axis:
\* not inside, with the secondary distance 0
C20_WitnessSpanEnd ==
  /\ NearestQueried
  /\ \E j \in VisibleIndices :
       LET b == BBoxOf(entities[j])
           q == query.queryPoint
       IN /\ ThicknessCoord(q) = ThicknessSpan(b).max + HalfPixel + 1
          /\ LengthCoord(q) = LengthSpan(b).max + HalfPixel
          /\ PairOf(j).primaryDist > 0
          /\ PairOf(j).secondaryDist = 0

\* a query point just over 0.5 pixel beyond the end of the span of a visible
\* mark on the length axis has a secondary distance that is not 0
C20_WitnessBeyond ==
  /\ NearestQueried
  /\ \E j \in VisibleIndices :
       LET b == BBoxOf(entities[j])
           q == query.queryPoint
       IN /\ LengthCoord(q) = LengthSpan(b).max + HalfPixel + 1
          /\ PairOf(j).secondaryDist > 0

---------------------------------------------------------------------------
(* DragBoxLayer claims *)

RadiusCalled == query.kind = "detectionRadius"

(* C21: a call detectionRadius(r) with r < 0 raises an error, leaves the   *)
(* stored radius as it was and requests no render; with r >= 0 it raises   *)
(* none, stores r and requests a render; the stored radius is never        *)
(* negative.                                                               *)
C21_NegativeRadiusRejected ==
  [][/\ (query'.kind = "detectionRadius" /\ query'.r < 0) =>
          /\ thrown' = "detection radius cannot be negative."
          /\ detectionRadius' = detectionRadius
          /\ renderRequested' = renderRequested
     /\ (query'.kind = "detectionRadius" /\ query'.r >= 0) =>
          /\ thrown' = NoError
          /\ detectionRadius' = query'.r
          /\ renderRequested'
     /\ detectionRadius' >= 0]_vars

\* the radius was set to 1 and the render flushed; the call with -1 that
\* followed was rejected, the radius is still 1 and no render is requested
C21_Witness ==
  /\ query = [kind |-> "detectionRadius", r |-> -1]
  /\ thrown # NoError
  /\ detectionRadius = 1
  /\ ~renderRequested

\* the steps of the drag interaction
DragStarts == ~dragging.active /\ dragging'.active
DragGoesOn == dragging.active /\ dragging'.active
DragEnds == dragging.active /\ ~dragging'.active

\* a coordinate within the detection radius of an edge, and within the span
\* from one edge to another extended by the detection radius
NearEdge(c, edge) == edge - detectionRadius <= c /\ c <= edge + detectionRadius
InExtent(c, low, high) == low - detectionRadius <= c /\ c <= high + detectionRadius
BoxTop == boxBounds.topLeft.y
BoxBottom == boxBounds.bottomRight.y
BoxLeft == boxBounds.topLeft.x
BoxRight == boxBounds.bottomRight.x
\* the edges that the point hits
HitEdges(p) ==
  [top |-> resizable /\ NearEdge(p.y, BoxTop) /\ InExtent(p.x, BoxLeft, BoxRight),
   bottom |-> resizable /\ NearEdge(p.y, BoxBottom) /\ InExtent(p.x, BoxLeft, BoxRight),
   left |-> resizable /\ NearEdge(p.x, BoxLeft) /\ InExtent(p.y, BoxTop, BoxBottom),
   right |-> resizable /\ NearEdge(p.x, BoxRight) /\ InExtent(p.y, BoxTop, BoxBottom)]
HitsNoEdge(p) ==
  ~HitEdges(p).top /\ ~HitEdges(p).bottom /\ ~HitEdges(p).left /\ ~HitEdges(p).right

(* C22: at a drag start, if the box is not visible or the start point hits *)
(* no edge the bounds become the degenerate box at the start point and the *)
(* gesture is a new-box gesture, otherwise the bounds are kept and the     *)
(* gesture is a resize; the box is visible after the drag start and while  *)
(* the gesture goes on; at the drag end the box is hidden if and only if   *)
(* the gesture was a new-box gesture and ends where it started.            *)
C22_GestureProtocol ==
  [][/\ DragStarts =>
          LET s == dragging'.s
              fresh == ~boxVisible \/ HitsNoEdge(s)
          IN /\ startedNewBox' = fresh
             /\ fresh => boxBounds' = [topLeft |-> s, bottomRight |-> s]
             /\ ~fresh => boxBounds' = boxBounds
             /\ boxVisible'
     /\ DragGoesOn => (boxVisible' /\ startedNewBox' = startedNewBox)
     /\ DragEnds =>
          /\ query'.kind = "dragEnd" /\ query'.s = dragging.s
          /\ boxVisible' = ~(startedNewBox /\ query'.e = query'.s)]_vars

\* a resize gesture has ended where it started, and the box is visible
C22_Witness ==
  /\ query.kind = "dragEnd" /\ query.e = query.s
  /\ ~dragging.active
  /\ startedNewBox = FALSE
  /\ boxVisible

\* a click: a new-box gesture has ended where it started without a drag, and
\* the box is hidden
C22_WitnessClick ==
  /\ query.kind = "dragEnd" /\ query.e = query.s
  /\ ~dragging.active
  /\ startedNewBox = TRUE
  /\ boxBounds = [topLeft |-> query.s, bottomRight |-> query.s]
  /\ ~boxVisible

\* the point lies in the region of the box extended by the detection radius
InExtendedBox(p) ==
  /\ InExtent(p.x, MinOf(BoxLeft, BoxRight), MaxOf(BoxLeft, BoxRight))
  /\ InExtent(p.y, MinOf(BoxTop, BoxBottom), MaxOf(BoxTop, BoxBottom))

\* the frame of a resize gesture after a drag to the point e
ResizedTo(e) ==
  /\ bottomRight'.y = IF resizingEdges.bottom THEN e.y ELSE bottomRight.y
  /\ topLeft'.y = IF ~resizingEdges.bottom /\ resizingEdges.top THEN e.y ELSE topLeft.y
  /\ bottomRight'.x = IF resizingEdges.right THEN e.x ELSE bottomRight.x
  /\ topLeft'.x = IF ~resizingEdges.right /\ resizingEdges.left THEN e.x ELSE topLeft.x

(* C23: an edge is detected at a drag start only when the layer is        *)
(* resizable and the start point is within the detection radius of the    *)
(* edge and within the box extended by the detection radius, so a layer   *)
(* that is not resizable starts a new box at every drag start; the frame  *)
(* of the gesture is the bounds after the drag start, and each drag of a  *)
(* resize gesture moves only the detected edges (bottom before top, right *)
(* before left) to the current point, keeps every other coordinate and    *)
(* the detected edges, and hands the frame to the bounds.                 *)
C23_ResizeFrame ==
  [][/\ DragStarts =>
          LET s == dragging'.s
              e == resizingEdges'
          IN /\ e.top => (resizable /\ NearEdge(s.y, BoxTop) /\ InExtendedBox(s))
             /\ e.bottom => (resizable /\ NearEdge(s.y, BoxBottom) /\ InExtendedBox(s))
             /\ e.left => (resizable /\ NearEdge(s.x, BoxLeft) /\ InExtendedBox(s))
             /\ e.right => (resizable /\ NearEdge(s.x, BoxRight) /\ InExtendedBox(s))
             /\ ~resizable => startedNewBox' = TRUE
             /\ (boxVisible /\ (e.top \/ e.bottom \/ e.left \/ e.right))
                  => startedNewBox' = FALSE
             /\ topLeft' = boxBounds'.topLeft
             /\ bottomRight' = boxBounds'.bottomRight
     /\ (DragGoesOn /\ startedNewBox = FALSE) =>
          /\ \E e \in Points : ResizedTo(e)
          /\ resizingEdges' = resizingEdges
          /\ \/ boxBounds' = [topLeft |-> topLeft', bottomRight |-> bottomRight']
             \/ /\ BoxLeft' = MinOf(topLeft'.x, bottomRight'.x)
                /\ BoxRight' = MaxOf(topLeft'.x, bottomRight'.x)
                /\ BoxTop' = MinOf(topLeft'.y, bottomRight'.y)
                /\ BoxBottom' = MaxOf(topLeft'.y, bottomRight'.y)]_vars

\* a resize gesture that detected the bottom edge alone has moved it away from
\* the start point, with the other three edges where the drag start found them
C23_Witness ==
  /\ dragging.active
  /\ startedNewBox = FALSE
  /\ detectionRadius = 0
  /\ resizingEdges = [top |-> FALSE, bottom |-> TRUE, left |-> FALSE, right |-> FALSE]
  /\ bottomRight.y # dragging.s.y
  /\ boxBounds.bottomRight.y = bottomRight.y
  /\ topLeft = boxBounds.topLeft
  /\ bottomRight.x = boxBounds.bottomRight.x

\* a layer that is not resizable drags out a new box from its start point
C23_WitnessNotResizable ==
  /\ dragging.active
  /\ ~resizable
  /\ startedNewBox = TRUE
  /\ topLeft # bottomRight
  /\ dragging.s = topLeft

\* the components of a list, and the list without a component
Members(list) == { list[i] : i \in 1 .. Len(list) }
Without(list, component) == SelectSeq(list, LAMBDA c : c # component)

\* no component twice and no null in the group
NoDuplicateNoNull ==
  /\ \A i, j \in 1 .. Len(components) : components[i] = components[j] => i = j
  /\ Null \notin Members(components)

(* C24: the component list of a Group never holds a component twice nor    *)
(* null; append of null or of a component of the group leaves the list as  *)
(* it is, append of any other component puts it last behind the others in  *)
(* their order; _remove takes the component out and keeps the order of the *)
(* others, and returns true exactly when the component was in the group.   *)
C24_GroupMembership ==
  /\ []NoDuplicateNoNull
  /\ [][/\ query'.kind = "append" =>
             LET c == query'.component
             IN IF c = Null \/ c \in Members(components)
                THEN components' = components
                ELSE components' = components \o <<c>>
        /\ query'.kind = "remove" =>
             LET c == query'.component
             IN /\ result' = (c \in Members(components))
                /\ components' = Without(components, c)
                /\ c \notin Members(components')]_vars

\* a component was appended and is the last of three
C24_Witness ==
  /\ query.kind = "append"
  /\ Len(components) = 3
  /\ components[3] = query.component

\* the second component was removed, the call returned true and the others are
\* left in their order
C24_WitnessRemoved ==
  /\ query.kind = "remove"
  /\ query.component = [id |-> 2]
  /\ result = TRUE
  /\ components = << [id |-> 1], [id |-> 3] >>

\* the removal of a component that is not in the group returned false
C24_WitnessAbsent ==
  /\ query.kind = "remove"
  /\ result = FALSE
  /\ query.component # Null
  /\ Len(components) = 2

====
